---- MODULE Spec2Model ----
(***************************************************************************)
(* Extraction-and-chunking pipeline of document_processor.py.              *)
(*                                                                         *)
(* A text is a sequence of characters (one-character strings).  The token  *)
(* codec works on UTF-8 bytes: a byte is a pair <<c, k>>, k = 0 for the    *)
(* single byte of a one-byte character c, k = 1, 2 for the two bytes of a  *)
(* multi-byte character c.  A token is a non-empty sequence of bytes.      *)
(***************************************************************************)
EXTENDS Integers, Sequences, FiniteSets, TLC

(***************************************************************************)
(* Bounds of the model.                                                    *)
(***************************************************************************)
\* longest page list handed directly to a chunker
MaxPages == 2
\* max_tokens ranges over 1..MaxTokens and one wide window
MaxTokens == 3
\* longest file list handed to the multi-document functions
MaxFiles == 2
\* iterations followed of a token-window loop that cannot terminate
MaxSpin == 3
\* most units (pages, slides, paragraphs) of an enumerated document
MaxUnits == 2

Min(a, b) == IF a < b THEN a ELSE b
Max(a, b) == IF a > b THEN a ELSE b

(***************************************************************************)
(* Python helpers.                                                         *)
(***************************************************************************)
\* seq[a:b] for integers a, b (negative indices count from the end)
PyIndex(n, i) == IF i < 0 THEN Max(n + i, 0) ELSE Min(i, n)
PySlice(seq, a, b) ==
    LET lo == PyIndex(Len(seq), a)
        hi == PyIndex(Len(seq), b)
    IN  IF hi <= lo THEN <<>> ELSE SubSeq(seq, lo + 1, hi)

\* the characters str.strip() and \s treat as white space
Whitespace == {" ", "\n"}

RECURSIVE LStrip(_)
LStrip(t) ==
    IF t # <<>> /\ Head(t) \in Whitespace THEN LStrip(Tail(t)) ELSE t

RECURSIVE RStrip(_)
RStrip(t) ==
    IF t # <<>> /\ t[Len(t)] \in Whitespace
    THEN RStrip(SubSeq(t, 1, Len(t) - 1))
    ELSE t

\* str.strip()
Strip(t) == RStrip(LStrip(t))

\* sep.join(parts) for a sequence of texts
RECURSIVE Join(_, _)
Join(sep, parts) ==
    IF parts = <<>> THEN <<>>
    ELSE IF Len(parts) = 1 THEN parts[1]
    ELSE parts[1] \o sep \o Join(sep, Tail(parts))

\* str(n) for n >= 0
DigitChar == <<"0", "1", "2", "3", "4", "5", "6", "7", "8", "9">>
RECURSIVE DecimalText(_)
DecimalText(n) ==
    IF n < 10 THEN <<DigitChar[n + 1]>>
    ELSE DecimalText(n \div 10) \o <<DigitChar[(n % 10) + 1]>>

(***************************************************************************)
(* Token codec (tiktoken encoding behind _encoder).                        *)
(***************************************************************************)
\* characters whose UTF-8 encoding has more than one byte
MultiByte == {"é", "W"}
\* what bytes.decode("utf-8", errors="replace") puts for an invalid sequence
REPLACEMENT == "U+FFFD"

\* the concatenation of a sequence of sequences
RECURSIVE Flatten(_)
Flatten(ss) ==
    IF Len(ss) = 0 THEN <<>>
    ELSE IF Len(ss) = 1 THEN ss[1]
    ELSE LET h == Len(ss) \div 2
         IN  Flatten(SubSeq(ss, 1, h)) \o Flatten(SubSeq(ss, h + 1, Len(ss)))

Utf8Char(c) == IF c \in MultiByte THEN <<<<c, 1>>, <<c, 2>>>> ELSE <<<<c, 0>>>>

\* str.encode("utf-8")
Utf8Encode(t) == Flatten([i \in 1..Len(t) |-> Utf8Char(t[i])])

\* what the byte at position i of b decodes to: its character for a one-byte
\* character or a first byte followed by its second byte, nothing for a second
\* byte that follows its first byte, U+FFFD for a byte left alone
DecodedAt(b, i) ==
    IF b[i][2] = 0 THEN <<b[i][1]>>
    ELSE IF b[i][2] = 1
         THEN IF i < Len(b) /\ b[i + 1] = <<b[i][1], 2>>
              THEN <<b[i][1]>> ELSE <<REPLACEMENT>>
    ELSE IF i > 1 /\ b[i - 1] = <<b[i][1], 1>> THEN <<>> ELSE <<REPLACEMENT>>

\* bytes.decode("utf-8", errors="replace")
Utf8Decode(b) == Flatten([i \in 1..Len(b) |-> DecodedAt(b, i)])

\* the multi-byte entries of the vocabulary; every single byte is a token too.
\* The two bytes of "é" form a token, those of "W" do not (a character the
\* encoding splits over two tokens).  "]\n" makes a token that straddles two
\* pages; after "1]" a token ends exactly where the page ends.
Merges ==
    { Utf8Encode(w) : w \in
        { <<"\n", "\n">>, <<"]", "\n">>, <<"é">>, <<"b", "u", "t">>,
          <<"F", "i", "n">>, <<" ", "P", "a", "g", "e">>,
          <<"1", "]">>, <<"a", "a">>, <<" ", "a">> } }
MaxMergeLen ==
    CHOOSE n \in {Len(m) : m \in Merges} : \A m \in Merges : Len(m) <= n

\* the pairs of bytes that are neighbours inside a vocabulary entry
MergePairs ==
    UNION { { <<m[k], m[k + 1]>> : k \in 1..(Len(m) - 1) } : m \in Merges }

\* pre-tokenization: the bytes are cut wherever no vocabulary entry can span
\* the cut; PieceEnds is the sequence of the last positions of the pieces
PieceEnds(b) ==
    SelectSeq([i \in 1..Len(b) |-> i],
              LAMBDA i : i = Len(b) \/ <<b[i], b[i + 1]>> \notin MergePairs)

Pieces(b) ==
    LET ends == PieceEnds(b)
    IN  [k \in 1..Len(ends) |->
            SubSeq(b, IF k = 1 THEN 1 ELSE ends[k - 1] + 1, ends[k])]

\* length of the longest vocabulary entry that is a prefix of b (b non-empty)
RECURSIVE LongestMatch(_, _)
LongestMatch(b, n) ==
    IF n <= 1 THEN 1
    ELSE IF n <= Len(b) /\ SubSeq(b, 1, n) \in Merges THEN n
    ELSE LongestMatch(b, n - 1)

\* the tokens of one piece: the longest vocabulary entry first
RECURSIVE EncodePiece(_)
EncodePiece(b) ==
    IF b = <<>> THEN <<>>
    ELSE LET n == LongestMatch(b, MaxMergeLen)
         IN  <<SubSeq(b, 1, n)>> \o EncodePiece(SubSeq(b, n + 1, Len(b)))

EncodeBytes(b) ==
    LET pieces == Pieces(b)
    IN  Flatten([k \in 1..Len(pieces) |-> EncodePiece(pieces[k])])

\* _encoder.encode(text)
Encode(t) == EncodeBytes(Utf8Encode(t))

\* _encoder.decode(tokens)
Decode(toks) == Utf8Decode(Flatten(toks))

\* count_tokens(text)
count_tokens(t) == Len(Encode(t))

(***************************************************************************)
(* Data model.                                                             *)
(***************************************************************************)
\* {"page": n, "text": t}
PageRecord(n, t) == [page |-> n, text |-> t]

\* TextChunk(text, source_pages, token_count), source_document left at ""
TextChunk(t, sp, tc) ==
    [text |-> t, source_pages |-> sp, token_count |-> tc, source_document |-> ""]

(***************************************************************************)
(* chunk_text: the concatenated text and the page spans.                   *)
(***************************************************************************)
Header(n) ==
    <<"\n", "\n", "[", "D", "é", "b", "u", "t", " ", "P", "a", "g", "e", " ">>
        \o DecimalText(n) \o <<"]", "\n">>
Footer(n) ==
    <<"\n", "[", "F", "i", "n", " ", "P", "a", "g", "e", " ">>
        \o DecimalText(n) \o <<"]">>

PageContent(p) == Header(p.page) \o p.text \o Footer(p.page)

\* full_text once every page is appended
FullText(ps) == Flatten([i \in 1..Len(ps) |-> PageContent(ps[i])])

\* mutant of PageSpans: a span starts one character after the span before it
RECURSIVE PageSpansGapped(_, _)
PageSpansGapped(ps, done) ==
    IF ps = <<>> THEN <<>>
    ELSE LET end_idx == done + Len(PageContent(Head(ps)))
         IN  <<<<done + 1, end_idx, Head(ps).page>>>>
                 \o PageSpansGapped(Tail(ps), end_idx)

\* the (start_idx, end_idx, page) triples, start_idx counted from `done`
\* characters already in full_text
RECURSIVE PageSpans(_, _)
PageSpans(ps, done) ==
    IF ps = <<>> THEN <<>>
    ELSE LET end_idx == done + Len(PageContent(Head(ps)))
         IN  <<<<done, end_idx, Head(ps).page>>>> \o PageSpans(Tail(ps), end_idx)

(***************************************************************************)
(* chunk_text: one window.                                                 *)
(***************************************************************************)
\* total_tokens == 0
EmptyDocument(toks) == Len(toks) = 0

\* mutants of EndToken: one token too many; no clamp at the end
EndTokenOneMore(start, maxTok, total) == Min(start + maxTok + 1, total)
EndTokenUnclamped(start, maxTok, total) == start + maxTok

EndToken(start, maxTok, total) == Min(start + maxTok, total)

\* mutant of NextStart: one token is skipped between two windows
NextStartGap(end, overlap) == end - overlap + 1

\* mutant of NextStart: the overlap is forgotten
NextStartNoOverlap(end, overlap) == end

NextStart(end, overlap) == end - overlap

\* mutant of LoopBreaks: the loop stops one token before the end
LoopBreaksEarly(end, total) == end + 1 >= total

\* `if end_token >= total_tokens: break`
LoopBreaks(end, total) == end >= total

\* mutant of Overlaps: touching spans count as overlapping
OverlapsClosed(cs, ce, ps, pe) == Max(cs, ps) <= Min(ce, pe)

\* strict overlap of [cs, ce) and [ps, pe)
Overlaps(cs, ce, ps, pe) == Max(cs, ps) < Min(ce, pe)

InSeq(x, seq) == \E i \in 1..Len(seq) : seq[i] = x

\* mutant of SourcePages: a page number is put in front of the list
RECURSIVE SourcePagesPrepended(_, _, _, _)
SourcePagesPrepended(spans, cs, ce, acc) ==
    IF spans = <<>> THEN acc
    ELSE LET sp == Head(spans)
             hit == Overlaps(cs, ce, sp[1], sp[2]) /\ ~InSeq(sp[3], acc)
         IN  SourcePagesPrepended(Tail(spans), cs, ce,
                                  IF hit THEN <<sp[3]>> \o acc ELSE acc)

\* the collection loop of chunk_text in pdf_processor.py: no membership test
RECURSIVE SourcePagesListed(_, _, _, _)
SourcePagesListed(spans, cs, ce, acc) ==
    IF spans = <<>> THEN acc
    ELSE SourcePagesListed(Tail(spans), cs, ce,
                           IF Overlaps(cs, ce, Head(spans)[1], Head(spans)[2])
                           THEN Append(acc, Head(spans)[3]) ELSE acc)

RECURSIVE SourcePages(_, _, _, _)
SourcePages(spans, cs, ce, acc) ==
    IF spans = <<>> THEN acc
    ELSE LET sp == Head(spans)
             hit == Overlaps(cs, ce, sp[1], sp[2]) /\ ~InSeq(sp[3], acc)
         IN  SourcePages(Tail(spans), cs, ce,
                         IF hit THEN Append(acc, sp[3]) ELSE acc)

\* the TextChunk of the window [start, end) of toks
WindowChunk(toks, spans, start, end) ==
    LET chunk_tokens_list == PySlice(toks, start, end)
        chunk_text_str == Decode(chunk_tokens_list)
        prefix_text == Decode(PySlice(toks, 0, start))
        chunk_char_start == Len(prefix_text)
        chunk_char_end == chunk_char_start + Len(chunk_text_str)
    IN  TextChunk(Strip(chunk_text_str),
                  SourcePages(spans, chunk_char_start, chunk_char_end, <<>>),
                  Len(chunk_tokens_list))

(***************************************************************************)
(* split_into_pages.                                                       *)
(***************************************************************************)
\* mutant of PageChunk: the page text is not trimmed
PageChunkUntrimmed(p) ==
    TextChunk(p.text, <<p.page>>, count_tokens(p.text))

PageChunk(p) ==
    LET text_content == Strip(p.text)
    IN  TextChunk(text_content, <<p.page>>, count_tokens(text_content))

RECURSIVE split_into_pages(_)
split_into_pages(ps) ==
    IF ps = <<>> THEN <<>>
    ELSE (IF Strip(Head(ps).text) # <<>> THEN <<PageChunk(Head(ps))>> ELSE <<>>)
         \o split_into_pages(Tail(ps))

(***************************************************************************)
(* Extraction.  A file is a stream [hasName, name, pos, kind, units,       *)
(* failAt]: name is a text, pos the read position, kind the format its     *)
(* bytes really have, units its pages (PDF), its newline-separated blocks  *)
(* (TXT), its slides (PPTX), its paragraphs (DOCX) or its content (ODF),   *)
(* failAt the unit whose processing raises (0: none does).                 *)
(* An extractor's try block yields [pages, raised, pos]: the page records  *)
(* built, whether an exception left the block, and the position the stream *)
(* is left at.                                                             *)
(***************************************************************************)
LowerChar(c) ==
    CASE c = "P" -> "p" [] c = "D" -> "d" [] c = "F" -> "f"
      [] c = "T" -> "t" [] c = "X" -> "x" [] c = "O" -> "o"
      [] c = "C" -> "c" [] c = "S" -> "s" [] OTHER -> c

\* str.lower()
Lower(t) == [i \in 1..Len(t) |-> LowerChar(t[i])]

\* str.endswith(suffix)
EndsWith(t, suffix) ==
    /\ Len(suffix) <= Len(t)
    /\ SubSeq(t, Len(t) - Len(suffix) + 1, Len(t)) = suffix

\* re.sub(r'\s+', ' ', t): every run of white space becomes one space
RECURSIVE CollapseWhitespace(_)
CollapseWhitespace(t) ==
    IF t = <<>> THEN <<>>
    ELSE IF Head(t) \in Whitespace
         THEN <<" ">> \o CollapseWhitespace(LStrip(t))
         ELSE <<Head(t)>> \o CollapseWhitespace(Tail(t))

\* the cleaning of one PDF page; the second substitution, (\n\s*){3,}, finds
\* nothing once the first has left no newline
CleanPdfText(t) == Strip(CollapseWhitespace(t))

\* what the try block of an extractor has reached
Outcome(ps, raised, pos) == [pages |-> ps, raised |-> raised, pos |-> pos]

\* mutant of Caught: the exception is raised again
CaughtReraised(r) == r

\* except Exception as e: print(...), then return pages
Caught(r) == Outcome(r.pages, FALSE, r.pos)

\* the bytes of the stream: the UTF-8 text of a plain-text file, the
\* signature of its container otherwise
Signature(kind) ==
    CASE kind = "pdf" -> <<"%", "P", "D", "F">>
      [] kind = "bin" -> <<"W">>
      [] OTHER -> <<"P", "K">>
FileBytes(file) ==
    IF file.kind = "txt" THEN Utf8Encode(Join(<<"\n">>, file.units))
    ELSE Utf8Encode(Signature(file.kind))

\* where a parser library (pdfplumber, python-docx, python-pptx, odfpy)
\* leaves the stream: it seeks by itself, whatever the position it is given;
\* the model has it stop at the end of the stream
ParsedTo(file) == Len(FileBytes(file))

\* mutant of PositionNumber: the records are numbered as they are emitted
PositionNumberRenumbered(i, emitted) == emitted + 1

\* the page number of the unit at 1-based position i (i + 1 for the 0-based
\* index of enumerate, i for enumerate(..., 1))
PositionNumber(i, emitted) == i

\* the loop over pdf.pages from page i on, acc the records built so far
RECURSIVE PdfPages(_, _, _)
PdfPages(file, i, acc) ==
    IF i > Len(file.units) THEN Outcome(acc, FALSE, ParsedTo(file))
    ELSE IF i = file.failAt THEN Outcome(acc, TRUE, ParsedTo(file))
    ELSE LET text_content == CleanPdfText(file.units[i])
         IN  PdfPages(file, i + 1,
                      IF text_content # <<>>
                      THEN Append(acc, PageRecord(PositionNumber(i, Len(acc)),
                                                  text_content))
                      ELSE acc)

\* pdfplumber.open raises on bytes that are not a PDF
_extract_from_pdf(file) ==
    Caught(IF file.kind # "pdf" THEN Outcome(<<>>, TRUE, ParsedTo(file))
           ELSE PdfPages(file, 1, <<>>))

(***************************************************************************)
(* DOCX.  A paragraph is [breakBefore, runs, other]: the pageBreakBefore   *)
(* flag, its runs, and the text it has outside its runs (hyperlinks).  A   *)
(* run is [pre, brk, post]: brk tells that the run holds a page break      *)
(* (w:br of type page or w:lastRenderedPageBreak), pre is its text before  *)
(* the break, post its text after it (post is empty without a break).      *)
(***************************************************************************)
\* run.text: a page break contributes no character
RunText(run) == run.pre \o run.post

\* the closure state of _extract_from_docx
DocxState(ps, current_page_text, page_num) ==
    [pages |-> ps, current_page_text |-> current_page_text,
     page_num |-> page_num]

\* flush_page()
FlushPage(st) ==
    LET text_content == Strip(Join(<<"\n", "\n">>, st.current_page_text))
    IN  IF text_content # <<>>
        THEN DocxState(Append(st.pages, PageRecord(st.page_num, text_content)),
                       <<>>, st.page_num + 1)
        ELSE DocxState(st.pages, <<>>, st.page_num)

\* mutant of AppendParagraph: the paragraph replaces the page's text
AppendParagraphAlone(st, para_parts) ==
    IF para_parts # <<>>
    THEN [st EXCEPT !.current_page_text = <<Join(<<" ">>, para_parts)>>]
    ELSE st

\* current_page_text.append(" ".join(para_parts)) when para_parts is not empty
AppendParagraph(st, para_parts) ==
    IF para_parts # <<>>
    THEN [st EXCEPT !.current_page_text = Append(@, Join(<<" ">>, para_parts))]
    ELSE st

\* the loop over para.runs
RECURSIVE DocxRuns(_, _, _)
DocxRuns(rs, st, para_parts) ==
    IF rs = <<>> THEN [st |-> st, para_parts |-> para_parts]
    ELSE LET run == Head(rs)
             parts == IF RunText(run) # <<>>
                      THEN Append(para_parts, RunText(run)) ELSE para_parts
         IN  IF run.brk
             THEN DocxRuns(Tail(rs), FlushPage(AppendParagraph(st, parts)), <<>>)
             ELSE DocxRuns(Tail(rs), st, parts)

\* the loop over doc.paragraphs from paragraph i on
RECURSIVE DocxParagraphs(_, _, _)
DocxParagraphs(file, i, st) ==
    IF i > Len(file.units) THEN [st |-> st, raised |-> FALSE]
    ELSE IF i = file.failAt THEN [st |-> st, raised |-> TRUE]
    ELSE LET para == file.units[i]
             Closed(r) == AppendParagraph(r.st, r.para_parts)
         IN  DocxParagraphs(file, i + 1,
                 Closed(DocxRuns(para.runs,
                                 IF para.breakBefore THEN FlushPage(st) ELSE st,
                                 <<>>)))

\* p.text: the text of the runs and of the hyperlinks
ParagraphText(para) ==
    Flatten([k \in 1..Len(para.runs) |-> RunText(para.runs[k])]) \o para.other

\* the fallback of _extract_from_docx: every non-blank paragraph on one page
DocxFallback(file) ==
    LET texts == [i \in 1..Len(file.units) |->
                     Strip(ParagraphText(file.units[i]))]
        full_text == SelectSeq(texts, LAMBDA t : t # <<>>)
    IN  IF full_text # <<>>
        THEN <<PageRecord(1, Join(<<"\n", "\n">>, full_text))>> ELSE <<>>

_extract_from_docx(file) ==
    Caught(IF file.kind # "docx" THEN Outcome(<<>>, TRUE, ParsedTo(file))
           ELSE LET Returned(ps) ==
                        IF ps = <<>> /\ file.units # <<>>
                        THEN Outcome(DocxFallback(file), FALSE, ParsedTo(file))
                        ELSE Outcome(ps, FALSE, ParsedTo(file))
                    Ended(r) ==
                        IF r.raised THEN Outcome(r.st.pages, TRUE, ParsedTo(file))
                        ELSE Returned(FlushPage(r.st).pages)
                IN  Ended(DocxParagraphs(file, 1, DocxState(<<>>, <<>>, 1))))

(***************************************************************************)
(* PPTX.  A slide is the sequence of its shapes, a shape is [hasText,      *)
(* text].                                                                  *)
(***************************************************************************)
\* the trimmed texts of the shapes that have a text attribute and a non-blank
\* text
SlideText(shapes) ==
    LET kept == SelectSeq(shapes,
                          LAMBDA sh : sh.hasText /\ Strip(sh.text) # <<>>)
    IN  [k \in 1..Len(kept) |-> Strip(kept[k].text)]

\* the loop over prs.slides from slide i on
RECURSIVE PptxSlides(_, _, _)
PptxSlides(file, i, acc) ==
    IF i > Len(file.units) THEN Outcome(acc, FALSE, ParsedTo(file))
    ELSE IF i = file.failAt THEN Outcome(acc, TRUE, ParsedTo(file))
    ELSE LET text_content == Join(<<"\n">>, SlideText(file.units[i]))
         IN  PptxSlides(file, i + 1,
                        IF text_content # <<>>
                        THEN Append(acc, PageRecord(PositionNumber(i, Len(acc)),
                                                    text_content))
                        ELSE acc)

_extract_from_pptx(file) ==
    Caught(IF file.kind # "pptx" THEN Outcome(<<>>, TRUE, ParsedTo(file))
           ELSE PptxSlides(file, 1, <<>>))

(***************************************************************************)
(* ODF.  The content is [slides, tables, paras, raw, rawFails]: the text   *)
(* of every draw:page, the tables (rows of cell texts), the text:p and     *)
(* text:h elements in the order getElementsByType gives them, each         *)
(* [text, breakBefore, softBreak, breakAfter], the text extractText(doc)   *)
(* gives, and whether that call raises.                                    *)
(***************************************************************************)
\* re.sub(r'\s{n,}', ' ', t): every run of n or more white-space characters
\* becomes one space; the substitution that follows it in the source
\* (\n\s*\n+ after n = 2, \n\s*\n{2,} after n = 3) then finds no run that long
RECURSIVE CollapseRuns(_, _)
CollapseRuns(t, n) ==
    IF t = <<>> THEN <<>>
    ELSE IF Head(t) \in Whitespace
         THEN LET rest == LStrip(t)
                  k == Len(t) - Len(rest)
              IN  (IF k >= n THEN <<" ">> ELSE SubSeq(t, 1, k))
                      \o CollapseRuns(rest, n)
         ELSE <<Head(t)>> \o CollapseRuns(Tail(t), n)

\* 1. the loop over slide_elements from slide i on
RECURSIVE OdfSlides(_, _, _)
OdfSlides(file, i, acc) ==
    IF i > Len(file.units.slides) THEN Outcome(acc, FALSE, 0)
    ELSE IF i = file.failAt THEN Outcome(acc, TRUE, 0)
    ELSE LET slide_text == CollapseRuns(Strip(file.units.slides[i]), 2)
         IN  OdfSlides(file, i + 1,
                       IF slide_text # <<>>
                       THEN Append(acc, PageRecord(PositionNumber(i, Len(acc)),
                                                   slide_text))
                       ELSE acc)

\* the non-blank cells of a row, trimmed
RowCells(row) ==
    LET kept == SelectSeq(row, LAMBDA cell : Strip(cell) # <<>>)
    IN  [k \in 1..Len(kept) |-> Strip(kept[k])]

\* table_text: one line per row that has a non-blank cell
TableText(tbl) ==
    LET rows == SelectSeq(tbl, LAMBDA row : RowCells(row) # <<>>)
    IN  [k \in 1..Len(rows) |-> Join(<<" ", "|", " ">>, RowCells(rows[k]))]

\* 2. the loop over tables from table i on
RECURSIVE OdfTables(_, _, _)
OdfTables(file, i, acc) ==
    IF i > Len(file.units.tables) THEN Outcome(acc, FALSE, 0)
    ELSE IF i = file.failAt THEN Outcome(acc, TRUE, 0)
    ELSE LET table_text == TableText(file.units.tables[i])
         IN  OdfTables(file, i + 1,
                       IF table_text # <<>>
                       THEN Append(acc, PageRecord(PositionNumber(i, Len(acc)),
                                                   Join(<<"\n">>, table_text)))
                       ELSE acc)

\* the closure state of the text case
OdfState(ps, current_page, page_number) ==
    [pages |-> ps, current_page |-> current_page, page_number |-> page_number]

\* flush_current_page()
FlushCurrentPage(st) ==
    LET text_block ==
            CollapseRuns(Strip(Join(<<"\n", "\n">>, st.current_page)), 3)
    IN  IF st.current_page # <<>> /\ text_block # <<>>
        THEN OdfState(Append(st.pages, PageRecord(st.page_number, text_block)),
                      <<>>, st.page_number + 1)
        ELSE OdfState(st.pages, <<>>, st.page_number)

\* 3. the loop over the text:p and text:h elements from element i on
RECURSIVE OdfParagraphs(_, _, _)
OdfParagraphs(file, i, st) ==
    IF i > Len(file.units.paras) THEN [st |-> st, raised |-> FALSE]
    ELSE IF i = file.failAt THEN [st |-> st, raised |-> TRUE]
    ELSE LET elem == file.units.paras[i]
             FlushIf(break, s) == IF break THEN FlushCurrentPage(s) ELSE s
             Added(s, para_text) ==
                 IF para_text = <<>> THEN s
                 ELSE FlushIf(elem.breakAfter,
                          FlushIf(elem.softBreak,
                              [s EXCEPT !.current_page = Append(@, para_text)]))
         IN  OdfParagraphs(file, i + 1,
                           Added(FlushIf(elem.breakBefore, st), Strip(elem.text)))

\* the fallback of the text case: every non-blank paragraph on one page
OdfAllParagraphs(file) ==
    LET texts == [i \in 1..Len(file.units.paras) |->
                     Strip(file.units.paras[i].text)]
        all_paragraphs == SelectSeq(texts, LAMBDA t : t # <<>>)
    IN  IF all_paragraphs # <<>>
        THEN <<PageRecord(1, Join(<<"\n", "\n">>, all_paragraphs))>> ELSE <<>>

OdfTextCase(file) ==
    LET Returned(ps) ==
            IF ps = <<>> THEN Outcome(OdfAllParagraphs(file), FALSE, 0)
            ELSE Outcome(ps, FALSE, 0)
        Ended(r) == IF r.raised THEN Outcome(r.st.pages, TRUE, 0)
                    ELSE Returned(FlushCurrentPage(r.st).pages)
    IN  Ended(OdfParagraphs(file, 1, OdfState(<<>>, <<>>, 1)))

\* mutant of OdfTableCase: the tables are read whatever the slides
OdfTableCaseAlways(file) ==
    IF file.units.tables # <<>> THEN OdfTables(file, 1, <<>>)
    ELSE Outcome(<<>>, FALSE, 0)

\* `if tables and not slide_elements:`
OdfTableCase(file) ==
    IF file.units.tables # <<>> /\ file.units.slides = <<>>
    THEN OdfTables(file, 1, <<>>)
    ELSE Outcome(<<>>, FALSE, 0)

\* the try block of _extract_from_odf once the document is loaded; a case
\* returns its pages when it has some, the next case is tried otherwise
OdfBody(file) ==
    LET Cases(sl, tb) ==
            IF sl.raised \/ sl.pages # <<>> THEN sl
            ELSE IF tb.raised \/ tb.pages # <<>> THEN tb
            ELSE OdfTextCase(file)
    IN  Cases(IF file.units.slides # <<>> THEN OdfSlides(file, 1, <<>>)
              ELSE Outcome(<<>>, FALSE, 0),
              OdfTableCase(file))

\* the handler of _extract_from_odf after the print: extractText(doc) in a
\* try of its own, whose bare except swallows the NameError of a document
\* that could not be loaded and every failure of extractText
OdfRawText(file, loaded, r) ==
    IF ~loaded \/ file.units.rawFails THEN r
    ELSE LET raw_text == Strip(file.units.raw)
         IN  IF raw_text # <<>>
             THEN Outcome(<<PageRecord(1, raw_text)>>, r.raised, r.pos)
             ELSE r

_extract_from_odf(file) ==
    IF file.kind # "odf"
    THEN OdfRawText(file, FALSE, Caught(Outcome(<<>>, TRUE, ParsedTo(file))))
    ELSE LET Handled(body) ==
                 IF body.raised THEN OdfRawText(file, TRUE, Caught(body))
                 ELSE body
         IN  Handled(OdfBody(file))

\* file.read() from the current position, decoded and trimmed; `return []`
\* in the handler
_extract_from_txt(file) ==
    IF file.failAt # 0 THEN Outcome(<<>>, FALSE, file.pos)
    ELSE LET bytes == FileBytes(file)
             content == Strip(Utf8Decode(PySlice(bytes, file.pos, Len(bytes))))
         IN  Outcome(IF content # <<>> THEN <<PageRecord(1, content)>> ELSE <<>>,
                     FALSE, Max(file.pos, Len(bytes)))

dot_pdf == <<".", "p", "d", "f">>
dot_docx == <<".", "d", "o", "c", "x">>
dot_pptx == <<".", "p", "p", "t", "x">>
dot_odt == <<".", "o", "d", "t">>
dot_odp == <<".", "o", "d", "p">>
dot_ods == <<".", "o", "d", "s">>
dot_txt == <<".", "t", "x", "t">>

\* mutant of Extractor: the extension is compared as it is written
ExtractorCaseSensitive(file) ==
    IF ~file.hasName THEN "pdf"
    ELSE IF EndsWith(file.name, dot_pdf) THEN "pdf"
    ELSE IF EndsWith(file.name, dot_docx) THEN "docx"
    ELSE IF EndsWith(file.name, dot_pptx) THEN "pptx"
    ELSE IF \E e \in {dot_odt, dot_odp, dot_ods} : EndsWith(file.name, e)
    THEN "odf"
    ELSE IF EndsWith(file.name, dot_txt) THEN "txt"
    ELSE "pdf"

\* the extractor variant extract_text_from_file chooses
Extractor(file) ==
    IF ~file.hasName THEN "pdf"
    ELSE LET filename == Lower(file.name)
         IN  IF EndsWith(filename, dot_pdf) THEN "pdf"
             ELSE IF EndsWith(filename, dot_docx) THEN "docx"
             ELSE IF EndsWith(filename, dot_pptx) THEN "pptx"
             ELSE IF \E e \in {dot_odt, dot_odp, dot_ods} : EndsWith(filename, e)
             THEN "odf"
             ELSE IF EndsWith(filename, dot_txt) THEN "txt"
             ELSE "pdf"

\* mutant of SeekStart: the stream is left where it is
SeekStartForgotten(file) == file

\* file.seek(0)
SeekStart(file) == [file EXCEPT !.pos = 0]

\* the stream as the extractor receives it: a named stream is rewound
Dispatched(file) == IF file.hasName THEN SeekStart(file) ELSE file

RunExtractor(variant, file) ==
    CASE variant = "pdf" -> _extract_from_pdf(file)
      [] variant = "docx" -> _extract_from_docx(file)
      [] variant = "pptx" -> _extract_from_pptx(file)
      [] variant = "odf" -> _extract_from_odf(file)
      [] variant = "txt" -> _extract_from_txt(file)

\* extract_text_from_file with everything it does: pages, exception, position
Extraction(file) == RunExtractor(Extractor(file), Dispatched(file))

\* the page records extract_text_from_file returns
extract_text_from_file(file) == Extraction(file).pages

\* mutant of ExtractAndChunkBranch: a document without pages is an error
ExtractAndChunkBranchStrict(ps, m) ==
    IF ps = <<>> THEN "raise"
    ELSE IF m = "page" THEN "page"
    ELSE IF m = "token" THEN "token"
    ELSE "raise"

\* the branch extract_and_chunk takes once the pages are extracted
ExtractAndChunkBranch(ps, m) ==
    IF ps = <<>> THEN "empty"
    ELSE IF m = "page" THEN "page"
    ELSE IF m = "token" THEN "token"
    ELSE "raise"

\* getattr(file, "name", "inconnu")
inconnu == <<"i", "n", "c", "o", "n", "n", "u">>
NameOf(file) == IF file.hasName THEN file.name ELSE inconnu

(***************************************************************************)
(* Statistics.                                                             *)
(***************************************************************************)
\* "\n\n".join(p["text"] for p in pages)
get_full_text(ps) == Join(<<"\n", "\n">>, [i \in 1..Len(ps) |-> ps[i].text])

get_text_stats(file) ==
    LET Counted(ps, full_text, total) ==
            [num_pages |-> Len(ps),
             total_chars |-> Len(full_text),
             total_tokens |-> total,
             avg_tokens_per_page |-> total \div Max(Len(ps), 1)]
        Joined(ps, full_text) == Counted(ps, full_text, count_tokens(full_text))
        Paged(ps) == Joined(ps, get_full_text(ps))
    IN  Paged(extract_text_from_file(file))

\* stats["name"] = ...
NamedStats(st, name) ==
    [num_pages |-> st.num_pages, total_chars |-> st.total_chars,
     total_tokens |-> st.total_tokens,
     avg_tokens_per_page |-> st.avg_tokens_per_page, name |-> name]

\* mutant of SumInto: = instead of +=
SumIntoOverwrite(total, value) == value

\* total += value
SumInto(total, value) == total + value

\* mutant of Tag: the tagging resets token_count
TagRecounted(cs, doc_name) ==
    [i \in 1..Len(cs) |->
        [cs[i] EXCEPT !.source_document = doc_name, !.token_count = 0]]

\* chunk.source_document = doc_name, for every chunk of the list
Tag(cs, doc_name) ==
    [i \in 1..Len(cs) |-> [cs[i] EXCEPT !.source_document = doc_name]]

\* mutant of Extend: the new chunks go in front
ExtendFront(all, cs) == cs \o all

\* all_chunks.extend(chunks)
Extend(all, cs) == all \o cs

(***************************************************************************)
(* Inputs.                                                                 *)
(***************************************************************************)
\* page texts: blank, padded with white space, with a split character
Texts ==
    { <<" ">>, <<" ", "a", "a", "\n">>, <<"a", "W">> }

\* page numbers of a directly given page list: increasing, gaps allowed
PageNumbers == 1..(MaxPages + 1)

PageLists ==
    UNION { { ps \in [1..n -> [page : PageNumbers, text : Texts]] :
                \A i \in 1..(n - 1) : ps[i].page < ps[i + 1].page }
            : n \in 0..MaxPages }

SampleFiles ==
    { [hasName |-> TRUE, name |-> <<"a", ".", "p", "d", "f">>, pos |-> 0,
       kind |-> "pdf", failAt |-> 0,
       units |-> << <<"a", "a", " ", "\n", "a">>, <<" ">>, <<"W", "a">> >>],
      [hasName |-> TRUE, name |-> <<"b", ".", "T", "X", "T">>, pos |-> 1,
       kind |-> "txt", failAt |-> 0,
       units |-> << <<" ", "a">>, <<"a", " ">> >>],
      [hasName |-> TRUE, name |-> <<"c", ".", "b", "i", "n">>, pos |-> 2,
       kind |-> "pdf", failAt |-> 0,
       units |-> << <<"\n">>, <<>> >>],
      [hasName |-> FALSE, name |-> <<>>, pos |-> 1,
       kind |-> "pdf", failAt |-> 0,
       units |-> << <<"a">> >>] }

\* a stream of the given name, kind and content
Stream(name, pos, kind, units, failAt) ==
    [hasName |-> TRUE, name |-> name, pos |-> pos, kind |-> kind,
     failAt |-> failAt, units |-> units]

\* the sequences of at most n elements of S
SeqsUpTo(S, n) == UNION { [1..k -> S] : k \in 0..n }

\* PDF documents: a page with text, a blank page, a page to clean; one of
\* four pages that fails at any of them
PdfUnits == { <<"a">>, <<" ">>, <<"a", " ", "\n", "b", " ">> }
PdfDocuments ==
    { Stream(<<"d", ".", "P", "D", "F">>, 1, "pdf", us, k) :
        us \in SeqsUpTo(PdfUnits, MaxUnits), k \in 0..MaxUnits }
    \cup { Stream(<<"d", ".", "P", "D", "F">>, 1, "pdf",
                  << <<"a">>, <<" ">>, <<"a", " ", " ", "a">>, <<"W">> >>, k)
           : k \in 0..4 }

\* PPTX documents: slides with text, without, with shapes that have no text
Shape(t) == [hasText |-> TRUE, text |-> t]
NoTextShape == [hasText |-> FALSE, text |-> <<>>]
PptxUnits ==
    { <<Shape(<<"a", " ">>), NoTextShape, Shape(<<"b">>)>>,
      <<Shape(<<" ">>), NoTextShape>>,
      <<Shape(<<"c">>)>> }
PptxDocuments ==
    { Stream(<<"s", ".", "p", "p", "t", "x">>, 2, "pptx", us, k) :
        us \in SeqsUpTo(PptxUnits, MaxUnits), k \in 0..MaxUnits }
    \cup { Stream(<<"s", ".", "p", "p", "t", "x">>, 2, "pptx",
                  << <<Shape(<<"a">>)>>, <<Shape(<<"b">>)>>, <<Shape(<<" ">>)>>,
                     <<Shape(<<"c">>)>> >>, k)
           : k \in 0..4 }

\* DOCX documents
Run(pre, brk, post) == [pre |-> pre, brk |-> brk, post |-> post]
TextRun(t) == Run(t, FALSE, <<>>)
BreakRun == Run(<<>>, TRUE, <<>>)
Paragraph(breakBefore, rs, other) ==
    [breakBefore |-> breakBefore, runs |-> rs, other |-> other]
DocxUnits ==
    { Paragraph(FALSE, <<>>, <<>>),
      Paragraph(FALSE, <<TextRun(<<"a">>)>>, <<>>),
      Paragraph(FALSE, <<TextRun(<<" ">>)>>, <<>>),
      Paragraph(FALSE, <<TextRun(<<"b">>), TextRun(<<"c">>)>>, <<>>),
      Paragraph(FALSE, <<TextRun(<<"d">>), BreakRun>>, <<>>),
      Paragraph(FALSE, <<BreakRun, TextRun(<<"e">>)>>, <<>>),
      Paragraph(FALSE, <<Run(<<"f">>, TRUE, <<"g">>)>>, <<>>),
      Paragraph(FALSE, <<Run(<<>>, TRUE, <<"h">>)>>, <<>>),
      Paragraph(TRUE, <<TextRun(<<"i">>)>>, <<>>),
      Paragraph(FALSE, <<>>, <<"j">>) }
DocxDocuments ==
    { Stream(<<"w", ".", "D", "O", "C", "X">>, 1, "docx", us, k) :
        us \in SeqsUpTo(DocxUnits, MaxUnits), k \in 0..MaxUnits }

\* ODF documents
OdfElement(t, breakBefore, softBreak, breakAfter) ==
    [text |-> t, breakBefore |-> breakBefore, softBreak |-> softBreak,
     breakAfter |-> breakAfter]
OdfContent(slides, tables, paras, raw, rawFails) ==
    [slides |-> slides, tables |-> tables, paras |-> paras, raw |-> raw,
     rawFails |-> rawFails]
OdfSlideLists ==
    { <<>>, << <<" ">> >>,
      << <<"a", " ", " ", "b">>, <<" ">>, <<" ", "c">> >> }
RowAB == << <<"a", " ">>, <<" ">>, <<"b">> >>
RowC == << <<"c">> >>
RowBlank == << <<" ">>, <<>> >>
RowD == << <<"d">> >>
OdfTableLists ==
    { <<>>, << <<RowBlank>> >>, << <<RowAB, RowBlank, RowC>>, <<>>, <<RowD>> >> }
OdfParaLists ==
    { <<>>,
      << OdfElement(<<"p">>, FALSE, FALSE, FALSE) >>,
      << OdfElement(<<"p">>, FALSE, FALSE, TRUE),
         OdfElement(<<" ">>, TRUE, FALSE, TRUE),
         OdfElement(<<"q">>, TRUE, FALSE, FALSE),
         OdfElement(<<"r", " ", " ", " ", "s">>, FALSE, TRUE, FALSE),
         OdfElement(<<"t">>, FALSE, FALSE, FALSE) >> }
OdfDocuments ==
    { Stream(<<"o", ".", "o", "d", "t">>, 3, "odf",
             OdfContent(sl, tb, pa, raw[1], raw[2]), k) :
        sl \in OdfSlideLists, tb \in OdfTableLists, pa \in OdfParaLists,
        raw \in { <<<<>>, FALSE>>, <<<<" ", "x", " ">>, FALSE>>,
                  <<<<"x">>, TRUE>> },
        k \in 0..3 }

\* streams for the dispatch: every extension in both cases, an extension
\* that is none of them, bytes that are not what the name says
DispatchDocuments ==
    << Stream(<<"n", ".", "O", "D", "P">>, 1, "odf",
             OdfContent(<< <<"a">> >>, <<>>, <<>>, <<"a">>, FALSE), 0),
      Stream(<<"n", ".", "o", "d", "s">>, 1, "odf",
             OdfContent(<<>>, << <<RowD>> >>, <<>>, <<"d">>, FALSE), 0),
      Stream(<<"n", ".", "P", "p", "T", "x">>, 1, "pptx",
             << <<Shape(<<"a">>)>> >>, 0),
      Stream(<<"n", ".", "d", "o", "c", "x">>, 1, "docx",
             << Paragraph(FALSE, <<TextRun(<<"a">>)>>, <<>>) >>, 0),
      Stream(<<"n", ".", "t", "x", "t">>, 2, "txt", << <<"a", "é", "b">> >>, 0),
      Stream(<<"n", ".", "t", "x", "t">>, 2, "txt", << <<"a">> >>, 1),
      Stream(<<"n", ".", "t", "x", "t">>, 1, "docx",
             << Paragraph(FALSE, <<TextRun(<<"a">>)>>, <<>>) >>, 0),
      Stream(<<"n", ".", "p", "d", "f">>, 1, "docx",
             << Paragraph(FALSE, <<TextRun(<<"a">>)>>, <<>>) >>, 0),
      Stream(<<"n", ".", "d", "o", "c", "x">>, 1, "pdf", << <<"a">> >>, 0),
      Stream(<<"n", ".", "p", "p", "t", "x">>, 1, "bin", <<>>, 0),
      Stream(<<"n", ".", "o", "d", "t">>, 1, "bin",
             OdfContent(<<>>, <<>>, <<>>, <<"a">>, FALSE), 0),
      Stream(<<"n", ".", "d", "o", "c">>, 1, "pdf", << <<"a">> >>, 0),
      Stream(<<"p", "d", "f">>, 1, "pdf", << <<"a">> >>, 0),
      Stream(<<"t", "x", "t", ".">>, 1, "txt", << <<"a">> >>, 0),
      [hasName |-> FALSE, name |-> <<>>, pos |-> 1, kind |-> "txt",
       failAt |-> 0, units |-> << <<"a">> >>] >>

\* the documents extract_text_from_file is called on directly, one set per
\* format
DocumentSets ==
    <<SampleFiles, PdfDocuments, PptxDocuments, DocxDocuments, OdfDocuments>>
        \o [i \in 1..Len(DispatchDocuments) |-> {DispatchDocuments[i]}]

FileLists == UNION { [1..n -> SampleFiles] : n \in 0..MaxFiles }

Modes == {"page", "token", "paragraph"}

\* a window wider than any single page's markers
WideWindow == 6 * MaxTokens
MaxTokenChoices == (1..MaxTokens) \cup {WideWindow}
OverlapChoices == (0..(MaxTokens + 1)) \cup {WideWindow - 2, WideWindow}

Ops ==
    {"split_into_pages", "chunk_text", "extract_text_from_file",
     "extract_and_chunk", "extract_and_chunk_multiple",
     "get_text_stats_multiple", "call_llm", "generate_quiz",
     "detect_notions"}

NoStats == [num_documents |-> -1]

(***************************************************************************)
(* llm_service.py: the token budget and the retry loop of call_llm.        *)
(* A prompt is modelled by its two token counts, count_tokens(system) and  *)
(* count_tokens(user).                                                     *)
(***************************************************************************)
MODEL_CONTEXT_WINDOW == 32000
SYSTEM_PROMPT_MARGIN == 500
MinAvailable == 100

estimate_available_tokens(system_count, user_count) ==
    LET Left(available) == IF available > 0 THEN available ELSE -1
    IN  Left(MODEL_CONTEXT_WINDOW
             - (system_count + user_count + SYSTEM_PROMPT_MARGIN))

\* no wait at all between two attempts
WaitTimeNone(k) == 0

\* wait_time = 2 ** attempt
WaitTime(k) == 2 ^ k

\* the except clause sleeps only when another attempt follows
SleepsAfter(k, n) == k < n - 1

\* message.content of a response: None or a string
NoContent == [has |-> FALSE, text |-> <<>>]
Content(t) == [has |-> TRUE, text |-> t]

\* return content.strip() if content else ""
Stripped(content) ==
    IF content.has /\ content.text # <<>> THEN Strip(content.text) ELSE <<>>

\* the events call_llm causes outside itself
Create(k, ok, content) ==
    [kind |-> "create", n |-> k, ok |-> ok, content |-> content]
Sleep(wait_time) ==
    [kind |-> "sleep", n |-> wait_time, ok |-> FALSE, content |-> NoContent]

\* the except clause of one failed attempt
Failed(log, k, n) ==
    IF SleepsAfter(k, n)
    THEN log \o <<Create(k, FALSE, NoContent), Sleep(WaitTime(k))>>
    ELSE Append(log, Create(k, FALSE, NoContent))

Prompt(s, u) == [system |-> s, user |-> u]

\* prompts around the limit of 100 available tokens, and beyond the window
PromptChoices ==
    {Prompt(0, 0), Prompt(100, 31300), Prompt(100, 31301),
     Prompt(100, 31400), Prompt(20000, 20000)}

ContentChoices == {NoContent, Content(<<>>), Content(<<" ", "a", "\n">>)}

MaxRetries == 3

(***************************************************************************)
(* quiz_generator.py: the distribution of the questions of one difficulty  *)
(* over the chunks, and the arguments of generate_quiz.                    *)
(***************************************************************************)
\* round(num / den) for num >= 0 and den > 0: Python rounds halves to even
Round(num, den) ==
    LET Nearest(q, twice) ==
            IF twice < den THEN q
            ELSE IF twice > den THEN q + 1
            ELSE IF q % 2 = 0 THEN q ELSE q + 1
    IN  Nearest(num \div den, 2 * (num % den))

RECURSIVE SumTokenCount(_)
SumTokenCount(cs) ==
    IF cs = <<>> THEN 0 ELSE Head(cs).token_count + SumTokenCount(Tail(cs))

\* the padding dropped
ZerosNone(k) == <<>>

\* [0] * k
Zeros(k) == [j \in 1..k |-> 0]

\* n of iteration i (1-based) of the distribution loop
Share(cs, diff_count, i, remaining) ==
    IF i = Len(cs)
    THEN Max(remaining, 0)
    ELSE Min(IF SumTokenCount(cs) > 0
             THEN Round(diff_count * cs[i].token_count, SumTokenCount(cs))
             ELSE Round(diff_count, Len(cs)),
             remaining)

\* the distribution loop from iteration i on, acc the list built so far
RECURSIVE Distribute(_, _, _, _, _)
Distribute(cs, diff_count, i, remaining, acc) ==
    IF i > Len(cs)
    THEN acc
    ELSE LET Appended(n) ==
                 IF remaining - n <= 0
                 THEN Append(acc, n) \o Zeros(Len(cs) - (Len(acc) + 1))
                 ELSE Distribute(cs, diff_count, i + 1, remaining - n,
                                 Append(acc, n))
         IN  Appended(Share(cs, diff_count, i, remaining))

QuestionsPerChunk(cs, diff_count) == Distribute(cs, diff_count, 1, diff_count, <<>>)

\* one item of a difficulty_counts dict, in the dict's order
Count(name, count) == [name |-> name, count |-> count]

\* the arguments difficulty_counts, difficulty, num_questions: `given` tells
\* difficulty_counts from None, `single` tells that neither difficulty nor
\* num_questions is None
QuizArgs(given, counts, single, difficulty, num_questions) ==
    [given |-> given, counts |-> counts, single |-> single,
     difficulty |-> difficulty, num_questions |-> num_questions]

DifficultyCounts(args) ==
    IF args.given THEN args.counts
    ELSE IF ~args.single THEN <<Count("moyen", 10)>>
    ELSE <<Count(args.difficulty, args.num_questions)>>

\* diff_keys = [k for k, v in difficulty_counts.items() if v > 0]
RECURSIVE DiffKeys(_)
DiffKeys(counts) ==
    IF counts = <<>> THEN <<>>
    ELSE (IF Head(counts).count > 0 THEN <<Head(counts).name>> ELSE <<>>)
         \o DiffKeys(Tail(counts))

TotalSteps(counts, cs) == Len(DiffKeys(counts)) * Len(cs)

\* zip(chunks, questions_per_chunk) stops with the shorter list
ZipLen(cs, per_chunk) == Min(Len(cs), Len(per_chunk))

\* the questions generate_quiz_from_chunk returns for a chunk
Questions(chunk, diff_name, n) ==
    [j \in 1..n |-> [difficulty |-> diff_name,
                     source_pages |-> chunk.source_pages]]

Quiz(title, questions) == [title |-> title, questions |-> questions]
NoQuiz == Quiz("", <<>>)

MaxChunks == 2
MaxQuestions == 3

TokenCounts == {0, 1, MaxQuestions}
InChunk(tc) == TextChunk(<<"a">>, <<1>>, tc)
InChunkLists == UNION { [1..n -> {InChunk(tc) : tc \in TokenCounts}] : n \in 0..MaxChunks }

QuestionCounts == {0, 1, MaxQuestions}
ArgChoices ==
    {QuizArgs(FALSE, <<>>, FALSE, "", 0)}
    \cup {QuizArgs(FALSE, <<>>, TRUE, "facile", n) : n \in QuestionCounts}
    \cup {QuizArgs(TRUE, <<>>, FALSE, "", 0)}
    \cup {QuizArgs(TRUE, <<Count("facile", n)>>, FALSE, "", 0) :
             n \in QuestionCounts \cup {-1}}
    \cup {QuizArgs(TRUE, <<Count("facile", n), Count("moyen", m)>>, TRUE,
                   "difficile", 1) : n, m \in QuestionCounts}

(***************************************************************************)
(* notion_detector.py: the parsing of the LLM's answer.  An answer is what *)
(* call_llm_json did: it raised, or returned a JSON value.                 *)
(***************************************************************************)
Notion(title, description) ==
    [title |-> title, description |-> description, enabled |-> TRUE]

\* an item of the "notions" value: a dict with a title, a dict without one
\* (KeyError), or a value that is not a dict (TypeError)
NotionItem(kind, title) == [kind |-> kind, title |-> title]

\* a JSON value: "raise" (call_llm_json failed), "list" (not a dict: .get
\* raises), "null" ("notions" is not iterable), "absent" (no "notions" key)
\* or "dict" with its items
Answer(kind, items) == [kind |-> kind, items |-> items]

\* the loop of _parse_notions_response: a malformed item is skipped
RECURSIVE ParseItems(_)
ParseItems(items) ==
    IF items = <<>> THEN <<>>
    ELSE (IF Head(items).kind = "notion"
          THEN <<Notion(Head(items).title, <<>>)>> ELSE <<>>)
         \o ParseItems(Tail(items))

\* the try of detect_notions raises
Raises(answer) == answer.kind \in {"raise", "list", "null"}

_parse_notions_response(answer) ==
    IF answer.kind = "absent" THEN <<>> ELSE ParseItems(answer.items)

\* the try statement of detect_notions forgetting the list on a failure
DetectedOrNone(found, answer) ==
    IF Raises(answer) THEN <<>> ELSE _parse_notions_response(answer)

\* the notion list after the try statement of detect_notions
Detected(found, answer) ==
    IF Raises(answer) THEN found ELSE _parse_notions_response(answer)

AnswerChoices ==
    {Answer("raise", <<>>), Answer("list", <<>>), Answer("null", <<>>),
     Answer("absent", <<>>), Answer("dict", <<>>),
     Answer("dict", <<NotionItem("notion", "A")>>),
     Answer("dict", <<NotionItem("notion", "A"), NotionItem("untitled", ""),
                      NotionItem("notion", "B")>>),
     Answer("dict", <<NotionItem("string", ""), NotionItem("notion", "B")>>)}

NotionChunkLists == {[j \in 1..n |-> InChunk(1)] : n \in 0..MaxChunks}

(***************************************************************************)
(* State.                                                                  *)
(***************************************************************************)
VARIABLES
    op,              \* the function the caller calls
    files,           \* its file list (one file for the single-file functions)
    mode, max_tokens, overlap_tokens,
    before,          \* history: the position of every stream before the call
    pc,              \* position in the call
    fi,              \* index of the file being processed (1-based)
    pages,           \* page records of the current document
    page_spans, tokens, start_token, chunks,   \* locals of chunk_text
    windows,         \* history: <<start_token, end_token>> of each iteration
    all_chunks,      \* extract_and_chunk_multiple
    per_doc, total_pages, total_chars, total_tokens,  \* get_text_stats_multiple
    result,          \* the chunk list returned to the caller
    runs,            \* history: the lists returned by the earlier runs
    stats,           \* the record returned by a statistics function
    outcome,         \* "running", "returned" or the exception raised
    prompt, retries, \* call_llm: the arguments
    attempt,         \* the attempt the for loop runs next
    api_log,         \* history: the API calls and the sleeps, in order
    llm_result,      \* the string call_llm returns
    in_chunks,       \* generate_quiz, detect_notions: the chunks argument
    args,            \* generate_quiz: the difficulty arguments
    progress_callback,   \* whether a callback is passed
    difficulty_counts, diff_i,   \* the dict and the item the loop is at
    questions_per_chunk,
    chunk_i,         \* i of the loop over the chunks (0-based)
    current_step,
    progress,        \* history: the arguments of each callback call
    all_questions,
    quiz,            \* the Quiz generate_quiz returns
    notions,         \* detect_notions: the current notion list
    answers,         \* history: what call_llm_json did for each chunk
    received         \* history: the notion list each prompt was built from

vars ==
    <<op, files, mode, max_tokens, overlap_tokens, before, pc, fi, pages,
      page_spans, tokens, start_token, chunks, windows, all_chunks, per_doc,
      total_pages, total_chars, total_tokens, result, runs, stats, outcome,
      prompt, retries, attempt, api_log, llm_result, in_chunks, args,
      progress_callback, difficulty_counts, diff_i, questions_per_chunk,
      chunk_i, current_step, progress, all_questions, quiz, notions, answers,
      received>>

config == <<op, mode, max_tokens, overlap_tokens, before>>
inputs == <<config, files>>
chunkLocals == <<page_spans, tokens, start_token, chunks, windows>>
statLocals == <<per_doc, total_pages, total_chars, total_tokens>>
llmLocals == <<prompt, retries, attempt, api_log, llm_result>>
quizInputs == <<in_chunks, args, progress_callback>>
quizLocals ==
    <<difficulty_counts, diff_i, questions_per_chunk, current_step,
      all_questions, quiz>>
notionLocals == <<notions, answers, received>>
service ==
    <<llmLocals, quizInputs, quizLocals, chunk_i, progress, notionLocals>>
pipeline ==
    <<inputs, fi, pages, chunkLocals, all_chunks, statLocals, result, runs,
      stats>>

Init ==
    /\ op \in Ops
    /\ pages \in (IF op \in {"split_into_pages", "chunk_text"}
                  THEN PageLists ELSE {<<>>})
    /\ IF op = "extract_text_from_file"
       THEN \E k \in 1..Len(DocumentSets) : \E f \in DocumentSets[k] :
                files = <<f>>
       ELSE files \in (CASE op = "extract_and_chunk" ->
                            {<<f>> : f \in SampleFiles}
                         [] op \in {"extract_and_chunk_multiple",
                                    "get_text_stats_multiple"} -> FileLists
                         [] OTHER -> {<<>>})
    /\ mode \in (CASE op \in {"extract_and_chunk",
                              "extract_and_chunk_multiple"} -> Modes
                   [] op = "chunk_text" -> {"token"}
                   [] OTHER -> {"page"})
    /\ max_tokens \in (IF mode = "token" THEN MaxTokenChoices ELSE {1})
    /\ overlap_tokens \in (IF mode = "token" THEN OverlapChoices ELSE {0})
    /\ before = [i \in 1..Len(files) |-> files[i].pos]
    /\ pc = "start"
    /\ fi = 1
    /\ page_spans = <<>>
    /\ tokens = <<>>
    /\ start_token = 0
    /\ chunks = <<>>
    /\ windows = <<>>
    /\ all_chunks = <<>>
    /\ per_doc = <<>>
    /\ total_pages = 0
    /\ total_chars = 0
    /\ total_tokens = 0
    /\ result = <<>>
    /\ runs = <<>>
    /\ stats = NoStats
    /\ outcome = "running"
    /\ prompt \in (IF op = "call_llm" THEN PromptChoices ELSE {Prompt(0, 0)})
    /\ retries \in (IF op = "call_llm" THEN 0..MaxRetries ELSE {0})
    /\ attempt = 0
    /\ api_log = <<>>
    /\ llm_result = <<>>
    /\ in_chunks \in (CASE op = "generate_quiz" -> InChunkLists
                        [] op = "detect_notions" -> NotionChunkLists
                        [] OTHER -> {<<>>})
    /\ args \in (IF op = "generate_quiz" THEN ArgChoices
                  ELSE {QuizArgs(FALSE, <<>>, FALSE, "", 0)})
    /\ progress_callback \in (IF op \in {"generate_quiz", "detect_notions"}
                               THEN BOOLEAN ELSE {FALSE})
    /\ difficulty_counts = <<>>
    /\ diff_i = 1
    /\ questions_per_chunk = <<>>
    /\ chunk_i = 0
    /\ current_step = 0
    /\ progress = <<>>
    /\ all_questions = <<>>
    /\ quiz = NoQuiz
    /\ notions = <<>>
    /\ answers = <<>>
    /\ received = <<>>

(***************************************************************************)
(* Actions.                                                                *)
(***************************************************************************)
\* the caller enters the function
Call ==
    /\ pc = "start"
    /\ pc' = op
    /\ UNCHANGED <<inputs, fi, pages, chunkLocals, all_chunks, statLocals,
                   result, runs, stats, outcome>>
    /\ UNCHANGED service

\* split_into_pages called directly
SplitIntoPagesCall ==
    /\ pc = "split_into_pages"
    /\ chunks' = split_into_pages(pages)
    /\ pc' = "return"
    /\ UNCHANGED <<inputs, fi, pages, page_spans, tokens, start_token, windows,
                   all_chunks, statLocals, result, runs, stats, outcome>>
    /\ UNCHANGED service

\* chunk_text up to the loop: the concatenated text, the spans, the tokens
ChunkTextBegin ==
    /\ pc = "chunk_text"
    /\ page_spans' = PageSpans(pages, 0)
    /\ tokens' = Encode(FullText(pages))
    /\ start_token' = 0
    /\ chunks' = <<>>
    /\ windows' = <<>>
    /\ pc' = IF EmptyDocument(tokens') THEN "return" ELSE "while"
    /\ UNCHANGED <<inputs, fi, pages, all_chunks, statLocals, result, runs,
                   stats, outcome>>
    /\ UNCHANGED service

\* the loop of chunk_text cannot end when overlap_tokens >= max_tokens and
\* the first window does not reach the end: it is followed MaxSpin times
LoopFollowed == overlap_tokens < max_tokens \/ Len(chunks) < MaxSpin

\* one iteration of the while loop of chunk_text
ChunkTextStep ==
    /\ pc = "while"
    /\ LoopFollowed
    /\ IF start_token < Len(tokens)
       THEN LET end_token == EndToken(start_token, max_tokens, Len(tokens))
            IN  /\ chunks' = Append(chunks, WindowChunk(tokens, page_spans,
                                                        start_token, end_token))
                /\ windows' = Append(windows, <<start_token, end_token>>)
                /\ IF LoopBreaks(end_token, Len(tokens))
                   THEN pc' = "return" /\ UNCHANGED start_token
                   ELSE /\ start_token' = NextStart(end_token, overlap_tokens)
                        /\ pc' = "while"
       ELSE pc' = "return" /\ UNCHANGED <<chunks, windows, start_token>>
    /\ UNCHANGED <<inputs, fi, pages, page_spans, tokens, all_chunks,
                   statLocals, result, runs, stats, outcome>>
    /\ UNCHANGED service

\* the stream files[i] moved to position p
Moved(i, p) == [files EXCEPT ![i].pos = p]

\* extract_text_from_file called directly on files[1]
ExtractCall ==
    /\ pc = "extract_text_from_file"
    /\ LET Ended(r) ==
               /\ pages' = r.pages
               /\ files' = Moved(1, r.pos)
               /\ outcome' = IF r.raised THEN "Exception" ELSE "returned"
       IN  Ended(Extraction(files[1]))
    /\ pc' = "done"
    /\ UNCHANGED <<config, fi, chunkLocals, all_chunks, statLocals, result,
                   runs, stats>>
    /\ UNCHANGED service

\* extract_and_chunk on files[fi], up to the call of chunk_text
ExtractAndChunk ==
    /\ pc = "extract_and_chunk"
    /\ LET Branched(r, branch) ==
               /\ pages' = r.pages
               /\ files' = Moved(fi, r.pos)
               /\ chunks' = IF branch = "page" THEN split_into_pages(pages')
                            ELSE <<>>
               /\ pc' = CASE branch = "token" -> "chunk_text"
                          [] branch = "raise" -> "done"
                          [] OTHER -> "return"
               /\ outcome' = IF r.raised THEN "Exception"
                             ELSE IF branch = "raise" THEN "ValueError"
                             ELSE outcome
           Ended(r) == Branched(r, IF r.raised THEN "raise"
                                   ELSE ExtractAndChunkBranch(r.pages, mode))
       IN  Ended(Extraction(files[fi]))
    /\ page_spans' = <<>>
    /\ tokens' = <<>>
    /\ start_token' = 0
    /\ windows' = <<>>
    /\ UNCHANGED <<config, fi, all_chunks, statLocals, result, runs, stats>>
    /\ UNCHANGED service

\* a chunker or extract_and_chunk returns its list to the outside caller
Return ==
    /\ pc = "return"
    /\ op # "extract_and_chunk_multiple"
    /\ result' = chunks
    /\ outcome' = "returned"
    /\ pc' = "done"
    /\ UNCHANGED <<inputs, fi, pages, chunkLocals, all_chunks, statLocals,
                   runs, stats>>
    /\ UNCHANGED service

\* the caller runs extract_and_chunk once more on the same stream, with the
\* same configuration, the stream left where the first run left it
Rerun ==
    /\ pc = "done"
    /\ op = "extract_and_chunk"
    /\ outcome = "returned"
    /\ runs = <<>>
    /\ runs' = <<result>>
    /\ outcome' = "running"
    /\ pc' = "extract_and_chunk"
    /\ UNCHANGED <<inputs, fi, pages, chunkLocals, all_chunks, statLocals,
                   result, stats>>
    /\ UNCHANGED service

\* the caller runs get_text_stats on the stream, before the first run of
\* extract_and_chunk or between the two
StatsPass ==
    /\ pc \in {"start", "done"}
    /\ op = "extract_and_chunk"
    /\ outcome \in {"running", "returned"}
    /\ runs = <<>>
    /\ stats = NoStats
    /\ stats' = get_text_stats(files[1])
    /\ files' = Moved(1, Extraction(files[1]).pos)
    /\ UNCHANGED <<config, pc, fi, pages, chunkLocals, all_chunks, statLocals,
                   result, runs, outcome>>
    /\ UNCHANGED service

\* extract_and_chunk_multiple: the head of the for loop (seek, doc_name), or
\* the return after the last file
MultipleNext ==
    /\ pc = "extract_and_chunk_multiple"
    /\ IF fi <= Len(files)
       THEN /\ files' = [files EXCEPT ![fi] = SeekStart(files[fi])]
            /\ pc' = "extract_and_chunk"
            /\ UNCHANGED <<result, outcome>>
       ELSE /\ result' = all_chunks
            /\ outcome' = "returned"
            /\ pc' = "done"
            /\ UNCHANGED files
    /\ UNCHANGED <<config, fi, pages, chunkLocals, all_chunks, statLocals,
                   runs, stats>>
    /\ UNCHANGED service

\* extract_and_chunk_multiple: extract_and_chunk has returned `chunks`
MultipleCollect ==
    /\ pc = "return"
    /\ op = "extract_and_chunk_multiple"
    /\ all_chunks' = Extend(all_chunks, Tag(chunks, NameOf(files[fi])))
    /\ files' = [files EXCEPT ![fi] = SeekStart(files[fi])]
    /\ fi' = fi + 1
    /\ pc' = "extract_and_chunk_multiple"
    /\ UNCHANGED <<config, pages, chunkLocals, statLocals, result, runs, stats,
                   outcome>>
    /\ UNCHANGED service

\* get_text_stats_multiple: one iteration of the for loop
StatsStep ==
    /\ pc = "get_text_stats_multiple"
    /\ fi <= Len(files)
    /\ LET Summed(file, st) ==
               /\ per_doc' = Append(per_doc, NamedStats(st, NameOf(file)))
               /\ total_pages' = SumInto(total_pages, st.num_pages)
               /\ total_chars' = SumInto(total_chars, st.total_chars)
               /\ total_tokens' = SumInto(total_tokens, st.total_tokens)
               /\ files' = [files EXCEPT ![fi] =
                               SeekStart([file EXCEPT
                                             !.pos = Extraction(file).pos])]
           Rewound(file) == Summed(file, get_text_stats(file))
       IN  Rewound(SeekStart(files[fi]))
    /\ fi' = fi + 1
    /\ UNCHANGED <<config, pc, pages, chunkLocals, all_chunks, result, runs,
                   stats, outcome>>
    /\ UNCHANGED service

\* get_text_stats_multiple: the return
StatsReturn ==
    /\ pc = "get_text_stats_multiple"
    /\ fi > Len(files)
    /\ stats' = [num_pages |-> total_pages,
                 total_chars |-> total_chars,
                 total_tokens |-> total_tokens,
                 avg_tokens_per_page |-> total_tokens \div Max(total_pages, 1),
                 num_documents |-> Len(files),
                 per_document |-> per_doc]
    /\ outcome' = "returned"
    /\ pc' = "done"
    /\ UNCHANGED <<inputs, fi, pages, chunkLocals, all_chunks, statLocals,
                   result, runs>>
    /\ UNCHANGED service

\* call_llm up to the for loop: the token budget
CallLlmBegin ==
    /\ pc = "call_llm"
    /\ IF estimate_available_tokens(prompt.system, prompt.user) < MinAvailable
       THEN /\ outcome' = "ValueError"
            /\ pc' = "done"
       ELSE /\ pc' = "for_attempt"
            /\ UNCHANGED outcome
    /\ UNCHANGED <<pipeline, service>>

\* call_llm: one iteration of the for loop, the API answering or failing
CallLlmAttempt ==
    /\ pc = "for_attempt"
    /\ attempt < retries
    /\ \/ \E content \in ContentChoices :
             /\ api_log' = Append(api_log, Create(attempt, TRUE, content))
             /\ llm_result' = Stripped(content)
             /\ outcome' = "returned"
             /\ pc' = "done"
             /\ UNCHANGED attempt
       \/ /\ api_log' = Failed(api_log, attempt, retries)
          /\ attempt' = attempt + 1
          /\ UNCHANGED <<llm_result, outcome, pc>>
    /\ UNCHANGED <<pipeline, prompt, retries, quizInputs, quizLocals, chunk_i,
                   progress, notionLocals>>

\* call_llm: the raise after the loop
CallLlmRaise ==
    /\ pc = "for_attempt"
    /\ attempt >= retries
    /\ outcome' = "RuntimeError"
    /\ pc' = "done"
    /\ UNCHANGED <<pipeline, service>>

\* the callback call, when a callback was passed
Reported(current, total) ==
    IF progress_callback THEN Append(progress, <<current, total>>)
    ELSE progress

\* generate_quiz up to the loop over the difficulties
GenerateQuizBegin ==
    /\ pc = "generate_quiz"
    /\ IF in_chunks = <<>>
       THEN /\ quiz' = Quiz("Quizz vide", <<>>)
            /\ outcome' = "returned"
            /\ pc' = "done"
            /\ UNCHANGED difficulty_counts
       ELSE /\ difficulty_counts' = DifficultyCounts(args)
            /\ pc' = "for_difficulty"
            /\ UNCHANGED <<quiz, outcome>>
    /\ UNCHANGED <<pipeline, llmLocals, quizInputs, diff_i,
                   questions_per_chunk, current_step, all_questions, chunk_i,
                   progress, notionLocals>>

\* generate_quiz: the head of the loop over the difficulties, with the
\* distribution of the difficulty's questions
GenerateQuizDistribute ==
    /\ pc = "for_difficulty"
    /\ diff_i <= Len(difficulty_counts)
    /\ IF difficulty_counts[diff_i].count <= 0
       THEN /\ diff_i' = diff_i + 1
            /\ UNCHANGED <<questions_per_chunk, chunk_i, pc>>
       ELSE /\ questions_per_chunk' =
                   QuestionsPerChunk(in_chunks, difficulty_counts[diff_i].count)
            /\ chunk_i' = 0
            /\ pc' = "for_chunk"
            /\ UNCHANGED diff_i
    /\ UNCHANGED <<pipeline, llmLocals, quizInputs, difficulty_counts,
                   current_step, all_questions, quiz, progress, notionLocals,
                   outcome>>

\* generate_quiz: one iteration of the generation loop, or its end;
\* generate_quiz_from_chunk returns the questions asked for, or it raises
\* or returns none
GenerateQuizChunk ==
    /\ pc = "for_chunk"
    /\ IF chunk_i < ZipLen(in_chunks, questions_per_chunk)
       THEN /\ current_step' = current_step + 1
            /\ progress' = Reported(current_step + 1,
                                    TotalSteps(difficulty_counts, in_chunks))
            /\ IF questions_per_chunk[chunk_i + 1] <= 0
               THEN UNCHANGED all_questions
               ELSE \/ all_questions' =
                          all_questions \o
                          Questions(in_chunks[chunk_i + 1],
                                    difficulty_counts[diff_i].name,
                                    questions_per_chunk[chunk_i + 1])
                    \/ UNCHANGED all_questions
            /\ chunk_i' = chunk_i + 1
            /\ UNCHANGED <<diff_i, pc>>
       ELSE /\ diff_i' = diff_i + 1
            /\ pc' = "for_difficulty"
            /\ UNCHANGED <<current_step, progress, all_questions, chunk_i>>
    /\ UNCHANGED <<pipeline, llmLocals, quizInputs, difficulty_counts,
                   questions_per_chunk, quiz, notionLocals, outcome>>

\* generate_quiz: the last callback call and the return (the title is
\* written here without its accents)
GenerateQuizReturn ==
    /\ pc = "for_difficulty"
    /\ diff_i > Len(difficulty_counts)
    /\ progress' = Reported(TotalSteps(difficulty_counts, in_chunks),
                            TotalSteps(difficulty_counts, in_chunks))
    /\ quiz' = Quiz("Quizz genere depuis PDF", all_questions)
    /\ outcome' = "returned"
    /\ pc' = "done"
    /\ UNCHANGED <<pipeline, llmLocals, quizInputs, difficulty_counts, diff_i,
                   questions_per_chunk, current_step, all_questions, chunk_i,
                   notionLocals>>

\* detect_notions up to the loop
DetectNotionsBegin ==
    /\ pc = "detect_notions"
    /\ IF in_chunks = <<>>
       THEN /\ outcome' = "returned"
            /\ pc' = "done"
       ELSE /\ pc' = "for_notion_chunk"
            /\ UNCHANGED outcome
    /\ UNCHANGED <<pipeline, service>>

\* detect_notions: one iteration of the loop
DetectNotionsStep ==
    /\ pc = "for_notion_chunk"
    /\ chunk_i < Len(in_chunks)
    /\ progress' = Reported(chunk_i, Len(in_chunks))
    /\ \E answer \in AnswerChoices :
          /\ received' = Append(received, notions)
          /\ answers' = Append(answers, answer)
          /\ notions' = Detected(notions, answer)
    /\ chunk_i' = chunk_i + 1
    /\ UNCHANGED <<pipeline, llmLocals, quizInputs, quizLocals, pc, outcome>>

\* detect_notions: the last callback call and the return of `notions`
DetectNotionsReturn ==
    /\ pc = "for_notion_chunk"
    /\ chunk_i >= Len(in_chunks)
    /\ progress' = Reported(Len(in_chunks), Len(in_chunks))
    /\ outcome' = "returned"
    /\ pc' = "done"
    /\ UNCHANGED <<pipeline, llmLocals, quizInputs, quizLocals, chunk_i,
                   notionLocals>>

Next ==
    \/ Call
    \/ SplitIntoPagesCall
    \/ ChunkTextBegin
    \/ ChunkTextStep
    \/ ExtractCall
    \/ ExtractAndChunk
    \/ Return
    \/ Rerun
    \/ StatsPass
    \/ MultipleNext
    \/ MultipleCollect
    \/ StatsStep
    \/ StatsReturn
    \/ CallLlmBegin
    \/ CallLlmAttempt
    \/ CallLlmRaise
    \/ GenerateQuizBegin
    \/ GenerateQuizDistribute
    \/ GenerateQuizChunk
    \/ GenerateQuizReturn
    \/ DetectNotionsBegin
    \/ DetectNotionsStep
    \/ DetectNotionsReturn

Spec == Init /\ [][Next]_vars

(***************************************************************************)
(* Properties.                                                             *)
(***************************************************************************)
\* the contract of chunk_text on its configuration
ValidConfig ==
    /\ max_tokens >= 1
    /\ 0 <= overlap_tokens
    /\ overlap_tokens < max_tokens

\* `chunks` is the list chunk_text has built so far, one entry of `windows`
\* per chunk
InChunkText == mode = "token" /\ pc \in {"while", "return"}

\* the token slice of the i-th window
WindowSlice(i) == SubSeq(tokens, windows[i][1] + 1, windows[i][2])

\* C1: with max_tokens >= 1 and 0 <= overlap_tokens < max_tokens, every chunk
\* of chunk_text has token_count <= max_tokens, token_count is the length of
\* its token slice, and every chunk but the last has token_count = max_tokens.
C1_TokenCount ==
    (InChunkText /\ ValidConfig) =>
        /\ Len(windows) = Len(chunks)
        /\ \A i \in 1..Len(chunks) :
            /\ chunks[i].token_count <= max_tokens
            /\ chunks[i].token_count = windows[i][2] - windows[i][1]
            /\ chunks[i].token_count = Len(WindowSlice(i))
            /\ (i < Len(chunks) => chunks[i].token_count = max_tokens)

\* chunk_text has returned several chunks, the last one shorter than
\* max_tokens
C1_Witness ==
    /\ InChunkText /\ ValidConfig /\ pc = "return"
    /\ Len(chunks) >= 3
    /\ chunks[Len(chunks)].token_count < max_tokens
    /\ chunks[1].token_count = max_tokens

\* C2: for consecutive windows i and i+1 (0 <= overlap_tokens < max_tokens),
\* the last overlap_tokens tokens of window i are the first overlap_tokens
\* tokens of window i+1, at the same positions of the token sequence.
C2_OverlapLaw ==
    (InChunkText /\ ValidConfig) =>
        \A i \in 1..(Len(windows) - 1) :
            LET a == WindowSlice(i)
                b == WindowSlice(i + 1)
            IN  /\ Len(a) >= overlap_tokens
                /\ Len(b) >= overlap_tokens
                /\ SubSeq(a, Len(a) - overlap_tokens + 1, Len(a))
                       = SubSeq(b, 1, overlap_tokens)
                /\ windows[i][2] - overlap_tokens = windows[i + 1][1]

\* two consecutive windows share two tokens or more, and those tokens differ
\* from the ones that follow them
C2_Witness ==
    /\ InChunkText /\ ValidConfig
    /\ overlap_tokens >= 2
    /\ Len(windows) >= 2
    /\ SubSeq(WindowSlice(2), 1, overlap_tokens)
           # SubSeq(WindowSlice(1), 1, overlap_tokens)

\* the character span chunk_text computes for its i-th window
CharStart(i) == Len(Decode(SubSeq(tokens, 1, windows[i][1])))
CharEnd(i) == CharStart(i) + Len(Decode(WindowSlice(i)))

\* C3: in the list chunk_text returns, a page number is in a chunk's
\* source_pages if and only if the page's recorded span [p_start, p_end)
\* strictly overlaps the chunk's character span [char_start, char_end); a page
\* entirely before or after never appears.
C3_PageAttribution ==
    (InChunkText /\ ValidConfig /\ pc = "return") =>
        /\ Len(page_spans) = Len(pages)
        /\ \A j \in 1..Len(pages) : page_spans[j][3] = pages[j].page
        /\ \A i \in 1..Len(chunks) :
            LET char_start == CharStart(i)
                char_end == CharEnd(i)
            IN  \A j \in 1..Len(pages) :
                LET p_start == page_spans[j][1]
                    p_end == page_spans[j][2]
                    listed == InSeq(pages[j].page, chunks[i].source_pages)
                IN  /\ listed <=> (/\ p_start < char_end
                                   /\ char_start < p_end
                                   /\ char_start < char_end
                                   /\ p_start < p_end)
                    /\ (p_end <= char_start \/ char_end <= p_start) => ~listed

\* a chunk that starts exactly where a page ends, and so does not have that
\* page, and another chunk that has two pages
C3_Witness ==
    /\ InChunkText /\ ValidConfig /\ pc = "return"
    /\ \E i \in 1..Len(chunks) : \E j \in 1..Len(pages) :
        /\ page_spans[j][2] = CharStart(i)
        /\ ~InSeq(pages[j].page, chunks[i].source_pages)
    /\ \E i \in 1..Len(chunks) : Len(chunks[i].source_pages) = 2

\* C4: with stride s = max_tokens - overlap_tokens, the k-th window
\* (k = 0, 1, ...) is [k*s, min(k*s + max_tokens, total_tokens)), and there
\* are 1 window when total_tokens <= max_tokens, 1 + ceil((total_tokens -
\* max_tokens) / s) otherwise.
C4_WindowPositions ==
    (InChunkText /\ ValidConfig) =>
        LET s == max_tokens - overlap_tokens
            total == Len(tokens)
        IN  /\ \A k \in 0..(Len(windows) - 1) :
                windows[k + 1] = <<k * s, Min(k * s + max_tokens, total)>>
            /\ (pc = "return" /\ total > 0) =>
                Len(windows) = IF total <= max_tokens THEN 1
                               ELSE 1 + ((total - max_tokens) + (s - 1)) \div s

\* chunk_text has returned three windows or more, with a stride that does
\* not divide total_tokens - max_tokens
C4_Witness ==
    /\ InChunkText /\ ValidConfig /\ pc = "return"
    /\ overlap_tokens > 0
    /\ Len(windows) >= 3
    /\ (Len(tokens) - max_tokens) % (max_tokens - overlap_tokens) # 0

\* C5: token-window chunking called with overlap_tokens >= max_tokens ends
\* with an error and produces no chunk list: whatever the document, it builds
\* no chunk and returns no list.
C5_InvalidOverlapRejected ==
    (mode = "token" /\ overlap_tokens >= max_tokens /\ pages # <<>>) =>
        /\ chunks = <<>>
        /\ outcome # "returned"

\* C6: extract_and_chunk called with a mode other than "page" or "token"
\* raises ValueError for every input file, the files without pages included.
C6_UnknownModeRaises ==
    (op = "extract_and_chunk" /\ mode \notin {"page", "token"} /\ pc = "done") =>
        outcome = "ValueError"

\* the positions of the page records whose trimmed text is not empty
NonEmptyPages == {j \in 1..Len(pages) : Strip(pages[j].text) # <<>>}
\* the i-th of them, in page order
NthNonEmpty(i) ==
    CHOOSE j \in NonEmptyPages : Cardinality({k \in NonEmptyPages : k <= j}) = i

\* C7: page-aligned chunking returns, in page order, exactly one TextChunk per
\* page record whose trimmed text is not empty, with the trimmed page text,
\* source_pages = [page_number] and token_count = count(text).
C7_PageAligned ==
    (/\ pc = "done" /\ outcome = "returned"
     /\ \/ op = "split_into_pages"
        \/ op = "extract_and_chunk" /\ mode = "page") =>
        /\ Len(result) = Cardinality(NonEmptyPages)
        /\ \A i \in 1..Len(result) :
            LET p == pages[NthNonEmpty(i)]
            IN  /\ result[i].text = Strip(p.text)
                /\ result[i].text # <<>>
                /\ result[i].source_pages = <<p.page>>
                /\ result[i].token_count = Len(Encode(result[i].text))
                /\ result[i].source_document = ""

\* split_into_pages has returned one chunk for two pages, the first of them
\* blank, the other padded with white space
C7_Witness ==
    /\ op = "split_into_pages" /\ pc = "done"
    /\ Len(pages) = 2
    /\ Strip(pages[1].text) = <<>>
    /\ pages[2].text # Strip(pages[2].text)
    /\ Len(result) = 1
    /\ result[1].source_pages = <<pages[2].page>>

\* C8: when extraction yields no page record, extract_and_chunk returns the
\* empty list in mode "page" and in mode "token" without raising, and never
\* runs a chunker; chunk_text returns the empty list whenever the concatenated
\* text encodes to zero tokens, and enters its loop only when it does not.
C8_EmptyInput ==
    /\ (/\ op = "extract_and_chunk" /\ mode \in {"page", "token"}
        /\ extract_text_from_file(files[1]) = <<>>) =>
            /\ outcome # "ValueError"
            /\ pc \in {"start", "extract_and_chunk", "return", "done"}
            /\ pc = "done" => (outcome = "returned" /\ result = <<>>)
    /\ (op = "chunk_text" /\ pc = "while" /\ windows = <<>>) =>
            Len(Encode(FullText(pages))) > 0
    /\ (op = "chunk_text" /\ pc = "done"
        /\ Len(Encode(FullText(pages))) = 0) =>
            (outcome = "returned" /\ result = <<>>)

\* extract_and_chunk has returned [] in mode "token" for a file that has
\* blank pages only
C8_Witness ==
    /\ op = "extract_and_chunk" /\ mode = "token" /\ pc = "done"
    /\ files[1].units # <<>>
    /\ extract_text_from_file(files[1]) = <<>>
    /\ outcome = "returned" /\ result = <<>>

\* chunk_text has returned [] for an empty page list
C8_WitnessChunkText ==
    /\ op = "chunk_text" /\ pc = "done" /\ pages = <<>>
    /\ outcome = "returned" /\ result = <<>>

\* the chunk list of one file on its own: the pages of split_into_pages, or
\* the windows [k*s, min(k*s + max_tokens, total)) of chunk_text
WindowCount(total) ==
    IF total <= max_tokens THEN 1
    ELSE 1 + ((total - max_tokens) + (max_tokens - overlap_tokens - 1))
                 \div (max_tokens - overlap_tokens)

FileChunks(file) ==
    LET s == max_tokens - overlap_tokens
        Windows(toks, spans) ==
            [k \in 1..WindowCount(Len(toks)) |->
                 WindowChunk(toks, spans, (k - 1) * s,
                             Min((k - 1) * s + max_tokens, Len(toks)))]
        Chunked(ps) ==
            IF ps = <<>> THEN <<>>
            ELSE IF mode = "page" THEN split_into_pages(ps)
            ELSE Windows(Encode(FullText(ps)), PageSpans(ps, 0))
    IN  Chunked(extract_text_from_file(file))

RECURSIVE ConcatTagged(_)
ConcatTagged(fs) ==
    IF fs = <<>> THEN <<>>
    ELSE LET file == fs[Len(fs)]
             Tagged(own) == [i \in 1..Len(own) |->
                                [own[i] EXCEPT !.source_document = NameOf(file)]]
         IN  ConcatTagged(SubSeq(fs, 1, Len(fs) - 1))
             \o Tagged(FileChunks(file))

\* C9: for a valid mode, extract_and_chunk_multiple returns the concatenation,
\* in file order, of each file's own chunk list, every chunk tagged with the
\* name of its file.
C9_Aggregation ==
    (/\ op = "extract_and_chunk_multiple" /\ pc = "done"
     /\ outcome = "returned" /\ mode \in {"page", "token"}) =>
        result = ConcatTagged(files)

\* two different files, two chunks or more each, in token mode
C9_Witness ==
    /\ op = "extract_and_chunk_multiple" /\ pc = "done" /\ mode = "token"
    /\ ValidConfig
    /\ Len(files) = 2
    /\ NameOf(files[1]) # NameOf(files[2])
    /\ Len(FileChunks(files[1])) >= 2
    /\ Len(FileChunks(files[2])) >= 2
    /\ Len(result) = Len(FileChunks(files[1])) + Len(FileChunks(files[2]))
    /\ result[1].source_document = NameOf(files[1])
    /\ result[Len(result)].source_document = NameOf(files[2])

\* the sum of one field over a sequence of records
RECURSIVE SumField(_, _)
SumField(recs, field) ==
    IF recs = <<>> THEN 0 ELSE Head(recs)[field] + SumField(Tail(recs), field)

\* C10: the aggregate num_pages, total_chars and total_tokens are the sums of
\* the per-document values, num_documents is the number of files, and
\* per_document has one record per file, in input order, with its name.
C10_AggregateStats ==
    (op = "get_text_stats_multiple" /\ pc = "done") =>
        LET n == Len(files)
            doc(i) == stats.per_document[i]
        IN  /\ outcome = "returned"
            /\ stats.num_documents = n
            /\ Len(stats.per_document) = n
            /\ \A i \in 1..n :
                /\ doc(i).name = NameOf(files[i])
                /\ doc(i).num_pages = Len(extract_text_from_file(files[i]))
                /\ doc(i).total_chars = get_text_stats(files[i]).total_chars
                /\ doc(i).total_tokens = get_text_stats(files[i]).total_tokens
            /\ stats.num_pages = SumField(stats.per_document, "num_pages")
            /\ stats.total_chars = SumField(stats.per_document, "total_chars")
            /\ stats.total_tokens = SumField(stats.per_document, "total_tokens")

\* statistics of two different files that both have pages
C10_Witness ==
    /\ op = "get_text_stats_multiple" /\ pc = "done"
    /\ Len(files) = 2
    /\ files[1] # files[2]
    /\ stats.per_document[1].num_pages > 0
    /\ stats.per_document[2].num_pages > 0
    /\ stats.num_pages
           = stats.per_document[1].num_pages + stats.per_document[2].num_pages

(***************************************************************************)
(* Streams, failures and dispatch.                                         *)
(***************************************************************************)
Aggregators == {"extract_and_chunk_multiple", "get_text_stats_multiple"}

\* C11 as claimed: after extract_and_chunk_multiple or get_text_stats_multiple
\* the position of every stream is the position it had before the call,
\* whatever that position was.
C11_PositionRestored ==
    (op \in Aggregators /\ pc = "done" /\ outcome = "returned") =>
        \A i \in 1..Len(files) : files[i].pos = before[i]

\* C11 amended: after extract_and_chunk_multiple or get_text_stats_multiple
\* has returned, every stream of the list is at the start (position 0),
\* whatever its position was before the call.
C11_Rewound ==
    (op \in Aggregators /\ pc = "done" /\ outcome = "returned") =>
        \A i \in 1..Len(files) : files[i].pos = 0

\* extract_and_chunk_multiple has returned the chunks of two streams that
\* were not at the start
C11_Witness ==
    /\ op = "extract_and_chunk_multiple" /\ pc = "done" /\ outcome = "returned"
    /\ Len(files) = 2
    /\ before[1] > 0 /\ before[2] > 0
    /\ files[1].pos = 0 /\ files[2].pos = 0
    /\ result # <<>>

\* C12: a second run of extract_and_chunk on the same stream with the same
\* mode, max_tokens and overlap_tokens, with or without a statistics pass on
\* the stream before or between the runs, returns the list the first run
\* returned.
C12_Idempotence ==
    (op = "extract_and_chunk" /\ pc = "done" /\ outcome = "returned"
     /\ runs # <<>>) =>
        result = runs[1]

\* the second run on a plain-text stream that was not at the start, after a
\* statistics pass, has returned the two chunks or more of the first run
C12_Witness ==
    /\ op = "extract_and_chunk" /\ pc = "done" /\ outcome = "returned"
    /\ runs # <<>>
    /\ stats # NoStats
    /\ files[1].kind = "txt" /\ before[1] > 0
    /\ Len(result) >= 2
    /\ result = runs[1]

\* the bytes of the stream are not what the chosen extractor parses
KindMismatch(file) == Extractor(file) # "txt" /\ Extractor(file) # file.kind

\* an exception left the try block of the chosen extractor
FailureMet(file) ==
    LET variant == Extractor(file)
    IN  \/ KindMismatch(file)
        \/ /\ ~KindMismatch(file)
           /\ CASE variant = "pdf" -> PdfPages(file, 1, <<>>).raised
                [] variant = "pptx" -> PptxSlides(file, 1, <<>>).raised
                [] variant = "docx" ->
                    DocxParagraphs(file, 1, DocxState(<<>>, <<>>, 1)).raised
                [] variant = "odf" -> OdfBody(file).raised
                [] variant = "txt" -> file.failAt # 0

\* the direct call of extract_text_from_file has ended
Extracted == op = "extract_text_from_file" /\ pc = "done"

\* C13: extract_text_from_file never raises: for every format variant and
\* every malformed or failing document it returns a list of page records.
C13_NeverRaises ==
    /\ outcome # "Exception"
    /\ Extracted =>
        /\ outcome = "returned"
        /\ \A j \in 1..Len(pages) :
            pages[j].page >= 1 /\ pages[j].text # <<>>

\* an ODF document whose third slide fails and whose text dump fails too has
\* given the record of its first slide, and no exception
C13_Witness ==
    /\ Extracted /\ outcome = "returned"
    /\ files[1].kind = "odf" /\ Extractor(files[1]) = "odf"
    /\ FailureMet(files[1])
    /\ files[1].units.rawFails
    /\ Len(pages) = 1

\* the units of a document whose chosen extractor parses its bytes
UnitsOf(file) == IF KindMismatch(file) THEN <<>> ELSE file.units

\* the text the PDF or PPTX extractor makes of unit i
UnitText(file, i) ==
    IF Extractor(file) = "pdf" THEN CleanPdfText(file.units[i])
    ELSE Join(<<"\n">>, SlideText(file.units[i]))

\* the characters of a text that are not white space
Letters(t) == SelectSeq(t, LAMBDA c : c \notin Whitespace)

\* C14: when the processing of unit k fails, only that unit is skipped: every
\* other PDF page or PPTX slide that yields text has its page record, and the
\* text of every other DOCX paragraph is in a record.
C14_UnitFailureIsolated ==
    (Extracted /\ Extractor(files[1]) \in {"pdf", "pptx", "docx"}) =>
        LET file == files[1]
            us == UnitsOf(file)
        IN  \A i \in 1..Len(us) :
                i # file.failAt =>
                    IF Extractor(file) = "docx"
                    THEN \A c \in {Letters(ParagraphText(us[i]))[n] :
                                     n \in 1..Len(Letters(ParagraphText(us[i])))} :
                            \E j \in 1..Len(pages) : InSeq(c, pages[j].text)
                    ELSE UnitText(file, i) # <<>> =>
                            \E j \in 1..Len(pages) :
                                pages[j] = PageRecord(i, UnitText(file, i))

\* C15: when the extraction of a document fails, the result is the empty list
\* or a single page record numbered 1, never a list of the structured records
\* built before the failure.
C15_FailureDegrades ==
    (Extracted /\ FailureMet(files[1])) =>
        \/ pages = <<>>
        \/ Len(pages) = 1 /\ pages[1].page = 1

\* the ODF case that gives the records of a document that loads and does not
\* fail: "slides", "tables" or "text"
OdfCase(file) ==
    IF OdfSlides(file, 1, <<>>).pages # <<>> THEN "slides"
    ELSE IF file.units.slides = <<>> /\ OdfTables(file, 1, <<>>).pages # <<>>
    THEN "tables"
    ELSE "text"

\* the texts of the units numbered by position: PDF pages, PPTX slides, ODF
\* slides or ODF tables, as the extractor cleans them
PositionUnits(file) ==
    LET variant == Extractor(file)
    IN  IF variant = "odf"
        THEN IF OdfCase(file) = "slides"
             THEN [i \in 1..Len(file.units.slides) |->
                      CollapseRuns(Strip(file.units.slides[i]), 2)]
             ELSE [i \in 1..Len(file.units.tables) |->
                      Join(<<"\n">>, TableText(file.units.tables[i]))]
        ELSE [i \in 1..Len(file.units) |-> UnitText(file, i)]

\* the extraction numbers its records by position and has met no failure
PositionNumbered(file) ==
    /\ ~FailureMet(file)
    /\ \/ Extractor(file) \in {"pdf", "pptx"}
       \/ Extractor(file) = "odf" /\ OdfCase(file) \in {"slides", "tables"}

\* C16: in PDF, PPTX, ODF slide and ODF table extraction the page_number of
\* every record is the 1-based position of its unit; the units whose cleaned
\* text is empty have no record and their numbers are not reused, so the
\* numbers are strictly increasing.
C16_PositionNumbers ==
    (Extracted /\ PositionNumbered(files[1])) =>
        LET us == PositionUnits(files[1])
        IN  /\ \A j \in 1..Len(pages) :
                /\ pages[j].page \in 1..Len(us)
                /\ pages[j].text = us[pages[j].page]
                /\ pages[j].text # <<>>
            /\ \A j \in 1..(Len(pages) - 1) : pages[j].page < pages[j + 1].page
            /\ \A i \in 1..Len(us) :
                us[i] # <<>> => \E j \in 1..Len(pages) : pages[j].page = i

\* the tables of an ODF document have given records 1 and 3, the second
\* table has no text
C16_Witness ==
    /\ Extracted /\ PositionNumbered(files[1])
    /\ Extractor(files[1]) = "odf" /\ OdfCase(files[1]) = "tables"
    /\ Len(pages) = 2
    /\ pages[1].page = 1 /\ pages[2].page = 3

\* a DOCX document in document order: its texts and its break markers
Item(brk, t) == [brk |-> brk, text |-> t]
RunItems(run) ==
    <<Item(FALSE, run.pre)>>
        \o (IF run.brk THEN <<Item(TRUE, <<>>), Item(FALSE, run.post)>> ELSE <<>>)
ParagraphItems(para) ==
    (IF para.breakBefore THEN <<Item(TRUE, <<>>)>> ELSE <<>>)
        \o Flatten([k \in 1..Len(para.runs) |-> RunItems(para.runs[k])])
DocxItems(units) == Flatten([i \in 1..Len(units) |-> ParagraphItems(units[i])])

\* the pages the break markers delimit: the letters of each, in order
RECURSIVE BreakPages(_, _)
BreakPages(items, current) ==
    IF items = <<>> THEN <<current>>
    ELSE IF Head(items).brk THEN <<current>> \o BreakPages(Tail(items), <<>>)
    ELSE BreakPages(Tail(items), current \o Letters(Head(items).text))

\* a DOCX document that is parsed without failure and has all its text in
\* its runs
PlainDocx(file) ==
    /\ Extractor(file) = "docx" /\ file.kind = "docx"
    /\ ~FailureMet(file)
    /\ \A i \in 1..Len(file.units) : file.units[i].other = <<>>

\* no run has text after its break marker
NoTextAfterBreak(file) ==
    \A i \in 1..Len(file.units) : \A k \in 1..Len(file.units[i].runs) :
        file.units[i].runs[k].post = <<>>

\* C17: in DOCX extraction the page_number of a record is the position of its
\* page among all the pages the break markers delimit, the pages without text
\* counted: a page without text is dropped and its number is not given to the
\* next page.
C17_DocxPageNumbers ==
    (Extracted /\ PlainDocx(files[1]) /\ NoTextAfterBreak(files[1])) =>
        LET bp == BreakPages(DocxItems(files[1].units), <<>>)
        IN  [j \in 1..Len(pages) |-> pages[j].page]
                = SelectSeq([k \in 1..Len(bp) |-> k], LAMBDA k : bp[k] # <<>>)

\* C18: in DOCX extraction every break closes the current page: the text
\* before a break is in the record being closed or an earlier one, the text
\* after it, the rest of its paragraph included, is in a later record; the
\* records hold, in order, the texts of the pages the breaks delimit.
C18_DocxBreaks ==
    (Extracted /\ PlainDocx(files[1])) =>
        LET bp == BreakPages(DocxItems(files[1].units), <<>>)
        IN  [j \in 1..Len(pages) |-> Letters(pages[j].text)]
                = SelectSeq(bp, LAMBDA page : page # <<>>)

\* an ODF document that is loaded and processed without failure
PlainOdf(file) ==
    Extractor(file) = "odf" /\ file.kind = "odf" /\ ~FailureMet(file)

\* C19: _extract_from_odf chooses by the presence of elements: a document
\* with slide elements gives exactly one record per slide with text, a
\* document with tables and no slide exactly one record per table with text,
\* any other document the records of its paragraphs.
C19_OdfStrategy ==
    (Extracted /\ PlainOdf(files[1])) =>
        LET file == files[1]
        IN  pages = IF file.units.slides # <<>>
                    THEN OdfSlides(file, 1, <<>>).pages
                    ELSE IF file.units.tables # <<>>
                    THEN OdfTables(file, 1, <<>>).pages
                    ELSE OdfTextCase(file).pages

\* the variant each file name of the model stands for: the extension, read
\* without regard to case; any other name stands for PDF
VariantByName ==
    { <<<<"b", ".", "T", "X", "T">>, "txt">>,
      <<<<"n", ".", "t", "x", "t">>, "txt">>,
      <<<<"w", ".", "D", "O", "C", "X">>, "docx">>,
      <<<<"n", ".", "d", "o", "c", "x">>, "docx">>,
      <<<<"s", ".", "p", "p", "t", "x">>, "pptx">>,
      <<<<"n", ".", "P", "p", "T", "x">>, "pptx">>,
      <<<<"n", ".", "p", "p", "t", "x">>, "pptx">>,
      <<<<"o", ".", "o", "d", "t">>, "odf">>,
      <<<<"n", ".", "o", "d", "t">>, "odf">>,
      <<<<"n", ".", "O", "D", "P">>, "odf">>,
      <<<<"n", ".", "o", "d", "s">>, "odf">> }
ExpectedVariant(file) ==
    IF file.hasName /\ \E e \in VariantByName : e[1] = file.name
    THEN (CHOOSE e \in VariantByName : e[1] = file.name)[2]
    ELSE "pdf"

\* the stream as it was before the call
Original(i) == [files[i] EXCEPT !.pos = before[i]]

\* C20: extract_text_from_file returns what the variant of the file name's
\* extension (case-insensitive; PDF for any other extension and for a stream
\* without a name) extracts, for a named stream from the start of the stream.
C20_Dispatch ==
    Extracted =>
        LET file == Original(1)
            start == IF file.hasName THEN 0 ELSE file.pos
        IN  /\ Extractor(file) = ExpectedVariant(file)
            /\ pages = RunExtractor(ExpectedVariant(file),
                                    [file EXCEPT !.pos = start]).pages

\* a plain-text stream named in upper case that was not at the start has
\* given its whole text
C20_Witness ==
    /\ Extracted
    /\ files[1].name = <<"b", ".", "T", "X", "T">>
    /\ before[1] = 1
    /\ pages = <<PageRecord(1, <<"a", "\n", "a">>)>>

(***************************************************************************)
(* Chunk invariants, coverage and termination.                             *)
(***************************************************************************)
Chunkers == {"split_into_pages", "chunk_text"}

\* C21: every TextChunk a chunker produces (max_tokens >= 1 and
\* 0 <= overlap_tokens < max_tokens) has a text that is not empty once
\* trimmed; no window that decodes to white space only is emitted.
C21_NonEmptyText ==
    (op \in Chunkers /\ ValidConfig) =>
        \A i \in 1..Len(chunks) : Strip(chunks[i].text) # <<>>

StrictlyAscending(seq) == \A i \in 1..(Len(seq) - 1) : seq[i] < seq[i + 1]

\* the page numbers of a page list, in list order
PageNumbersOf(ps) == [j \in 1..Len(ps) |-> ps[j].page]

\* the functions that extract and chunk
Pipeline == {"extract_and_chunk", "extract_and_chunk_multiple"}

\* C22: the page numbers an extractor gives are strictly increasing, and in
\* every chunk of the pipeline source_pages is strictly increasing (ascending,
\* without duplicate); chunk_text collects the numbers in the order of the
\* page list, each once, and the loop of pdf_processor.py collects the same
\* list.
C22_SourcePagesOrder ==
    /\ (op \in Pipeline \cup {"extract_text_from_file"}) =>
        StrictlyAscending(PageNumbersOf(pages))
    /\ (op \in Pipeline \cup Chunkers) =>
        /\ \A i \in 1..Len(chunks) : StrictlyAscending(chunks[i].source_pages)
        /\ \A i \in 1..Len(all_chunks) :
            StrictlyAscending(all_chunks[i].source_pages)
        /\ \A i \in 1..Len(result) : StrictlyAscending(result[i].source_pages)
    /\ InChunkText =>
        \A i \in 1..Len(chunks) :
            /\ chunks[i].source_pages
                   = SelectSeq(PageNumbersOf(pages),
                               LAMBDA n : InSeq(n, chunks[i].source_pages))
            /\ (ValidConfig /\ pc = "return") =>
                chunks[i].source_pages
                    = SourcePagesListed(page_spans, CharStart(i), CharEnd(i), <<>>)

\* extract_and_chunk has returned a chunk of pages 1 and 3 of a PDF whose
\* second page is blank
C22_Witness ==
    /\ op = "extract_and_chunk" /\ pc = "done" /\ mode = "token"
    /\ PageNumbersOf(pages) = <<1, 3>>
    /\ \E i \in 1..Len(result) : result[i].source_pages = <<1, 3>>

\* C23: the chunks of the chunkers and of extract_and_chunk have an empty
\* source_document; the tagging of extract_and_chunk_multiple appends the
\* chunks extract_and_chunk returned, in their order, with the document name
\* as source_document and the same text, source_pages and token_count.
C23_TaggingFrame ==
    /\ (op \in Chunkers \cup {"extract_and_chunk"}) =>
        /\ \A i \in 1..Len(chunks) : chunks[i].source_document = ""
        /\ \A i \in 1..Len(result) : result[i].source_document = ""
    /\ (op = "extract_and_chunk_multiple" /\ pc = "return") =>
        \A i \in 1..Len(chunks) : chunks[i].source_document = ""
    /\ (op = "extract_and_chunk_multiple" /\ fi > 1
        /\ pc = "extract_and_chunk_multiple") =>
        /\ Len(all_chunks) >= Len(chunks)
        /\ \A i \in 1..Len(chunks) :
            LET tagged == all_chunks[Len(all_chunks) - Len(chunks) + i]
            IN  /\ tagged.text = chunks[i].text
                /\ tagged.source_pages = chunks[i].source_pages
                /\ tagged.token_count = chunks[i].token_count
                /\ tagged.source_document = NameOf(files[fi - 1])

\* the chunks of a second file have been tagged and appended after those of
\* the first
C23_Witness ==
    /\ op = "extract_and_chunk_multiple" /\ pc = "extract_and_chunk_multiple"
    /\ fi = 3
    /\ Len(chunks) >= 2
    /\ Len(all_chunks) > Len(chunks)
    /\ all_chunks[1].source_document # all_chunks[Len(all_chunks)].source_document
    /\ all_chunks[Len(all_chunks)].token_count > 0

\* chunk_text called directly, one step at a time until it has returned
ChunkTextInit == Init /\ op = "chunk_text"
ChunkTextNext == Call \/ ChunkTextBegin \/ ChunkTextStep \/ Return
\* a step of chunk_text is possible: ENABLED <<ChunkTextNext>>_vars
Running ==
    pc \in {"start", "chunk_text", "return"} \/ (pc = "while" /\ LoopFollowed)

\* the interpreter keeps executing a call that has not ended: weak fairness
\* of ChunkTextNext, WF_vars(ChunkTextNext), its enabling condition written
\* as Running
ChunkTextFairness == []<>(~Running) \/ []<><<ChunkTextNext>>_vars

ChunkTextSpec == ChunkTextInit /\ [][ChunkTextNext]_vars /\ ChunkTextFairness

\* the iterations chunk_text has made: the start of the window strictly
\* increases, and the window that ends at total_tokens is the last one
LoopRan ==
    /\ \A i \in 1..(Len(windows) - 1) :
        /\ windows[i][1] < windows[i + 1][1]
        /\ windows[i][2] < Len(tokens)
    /\ windows # <<>> => windows[Len(windows)][2] = Len(tokens)

\* C24: with max_tokens >= 1 and 0 <= overlap_tokens < max_tokens chunk_text
\* terminates: it returns, after iterations whose window start strictly
\* increases and of which only the last emits the window that ends at
\* total_tokens.
C24_Termination ==
    ValidConfig ~> (pc = "done" /\ outcome = "returned" /\ LoopRan)

\* chunk_text has returned after four iterations or more with an overlap
C24_Witness ==
    /\ op = "chunk_text" /\ pc = "done" /\ ValidConfig
    /\ overlap_tokens > 0
    /\ Len(windows) >= 4

\* C25: for 0 <= overlap_tokens < max_tokens and total_tokens > 0 the first
\* window starts at token 0, the last one ends at total_tokens, each window
\* starts at or before the end of the one before it, and every token position
\* of [0, total_tokens) is in a window.
C25_TokenCoverage ==
    (InChunkText /\ ValidConfig /\ pc = "return" /\ Len(tokens) > 0) =>
        /\ windows # <<>>
        /\ windows[1][1] = 0
        /\ windows[Len(windows)][2] = Len(tokens)
        /\ \A i \in 1..(Len(windows) - 1) : windows[i + 1][1] <= windows[i][2]
        /\ \A t \in 0..(Len(tokens) - 1) :
            \E i \in 1..Len(windows) : windows[i][1] <= t /\ t < windows[i][2]

\* three windows or more without overlap: each starts where the one before
\* it ends
C25_Witness ==
    /\ InChunkText /\ ValidConfig /\ pc = "return"
    /\ overlap_tokens = 0
    /\ Len(windows) >= 3
    /\ \A i \in 1..(Len(windows) - 1) : windows[i + 1][1] = windows[i][2]

\* decode is the concatenation of the token texts: cutting the token
\* sequence anywhere and decoding the two parts gives the concatenated text
Concatenative ==
    \A k \in 0..Len(tokens) :
        Decode(SubSeq(tokens, 1, k)) \o Decode(SubSeq(tokens, k + 1, Len(tokens)))
            = FullText(pages)

\* source_pages is the numbers of pages a..b of the page list
ContiguousRun(sp) ==
    \E a \in 1..Len(pages) : \E b \in a..Len(pages) :
        sp = SubSeq(PageNumbersOf(pages), a, b)

\* C26: the page spans are contiguous and partition [0, length) of the
\* concatenated text; when decode is the concatenation of the token texts,
\* every chunk of chunk_text has a source_pages that is not empty and is a
\* contiguous run of the page list, and every page is in the source_pages of
\* a chunk.
C26_PageCoverage ==
    (InChunkText /\ pc = "return" /\ pages # <<>>) =>
        /\ Len(page_spans) = Len(pages)
        /\ page_spans[1][1] = 0
        /\ page_spans[Len(pages)][2] = Len(FullText(pages))
        /\ \A j \in 1..Len(pages) : page_spans[j][1] < page_spans[j][2]
        /\ \A j \in 1..(Len(pages) - 1) : page_spans[j][2] = page_spans[j + 1][1]
        /\ Concatenative =>
            /\ \A i \in 1..Len(chunks) :
                chunks[i].source_pages # <<>> /\ ContiguousRun(chunks[i].source_pages)
            /\ \A j \in 1..Len(pages) :
                \E i \in 1..Len(chunks) : InSeq(pages[j].page, chunks[i].source_pages)

\* two pages in four chunks or more, one chunk on both pages, one on the
\* second page only
C26_Witness ==
    /\ InChunkText /\ pc = "return" /\ Concatenative
    /\ Len(pages) = 2
    /\ Len(chunks) >= 4
    /\ \E i \in 1..Len(chunks) : Len(chunks[i].source_pages) = 2
    /\ chunks[Len(chunks)].source_pages = <<pages[2].page>>

\* the letters of the runs of a DOCX document, in document order
RunLetters(units) ==
    Flatten([i \in 1..Len(units) |->
                Flatten([k \in 1..Len(units[i].runs) |->
                            Letters(RunText(units[i].runs[k]))])])

\* the letters of the page records, in record order
RecordLetters(ps) == Flatten([j \in 1..Len(ps) |-> Letters(ps[j].text)])

\* a DOCX document whose paragraphs and runs are processed without error
DocxProcessed(file) ==
    Extractor(file) = "docx" /\ file.kind = "docx" /\ ~FailureMet(file)

Available == estimate_available_tokens(prompt.system, prompt.user)

RECURSIVE Doubled(_)
Doubled(k) == IF k = 0 THEN 1 ELSE 2 * Doubled(k - 1)

Creates == {j \in 1..Len(api_log) : api_log[j].kind = "create"}
Sleeps == {j \in 1..Len(api_log) : api_log[j].kind = "sleep"}

\* attempts and waits alternate: attempt k is event 2k+1, the wait after it
\* is event 2k+2 and lasts 2^k seconds
Alternating ==
    \A j \in 1..Len(api_log) :
        IF j % 2 = 1
        THEN api_log[j].kind = "create" /\ api_log[j].n = (j - 1) \div 2
        ELSE /\ api_log[j].kind = "sleep"
             /\ api_log[j].n = Doubled((j - 2) \div 2)
             /\ ~api_log[j - 1].ok
             /\ api_log[j - 1].n < retries - 1

\* C28: with at least 100 tokens available call_llm calls the API at most
\* `retries` times, nothing follows the first successful attempt, whose
\* stripped content is returned, failed attempt k is followed by a wait of 2^k
\* seconds unless it is the last one allowed, and RuntimeError follows exactly
\* `retries` failed attempts; with fewer than 100 tokens available it raises
\* ValueError and the API is never called
C28_RetryProtocol ==
    op = "call_llm" =>
        /\ Cardinality(Creates) <= retries
        /\ Alternating
        /\ \A j \in Creates : api_log[j].ok =>
               /\ j = Len(api_log)
               /\ pc = "done" /\ outcome = "returned"
               /\ llm_result = Stripped(api_log[j].content)
        /\ Available < 100 =>
               /\ api_log = <<>>
               /\ pc = "done" => outcome = "ValueError"
        /\ (Available >= 100 /\ pc = "done") =>
               /\ outcome \in {"returned", "RuntimeError"}
               /\ outcome = "returned" =>
                      api_log # <<>> /\ api_log[Len(api_log)].ok
               /\ outcome = "RuntimeError" =>
                      /\ Cardinality(Creates) = retries
                      /\ \A j \in Creates : ~api_log[j].ok
                      /\ Cardinality(Sleeps) = Max(retries - 1, 0)
                      /\ api_log # <<>> => api_log[Len(api_log)].kind = "create"

\* two failed attempts, waits of 1 and 2 seconds, then the third succeeds
C28_Witness ==
    /\ op = "call_llm" /\ pc = "done" /\ outcome = "returned"
    /\ Len(api_log) = 5
    /\ api_log[2].n = 1 /\ api_log[4].n = 2
    /\ llm_result = <<"a">>


RECURSIVE SumOf(_)
SumOf(seq) == IF seq = <<>> THEN 0 ELSE Head(seq) + SumOf(Tail(seq))

\* the requested difficulties, as positions in the dict
Requested == {d \in 1..Len(difficulty_counts) : difficulty_counts[d].count > 0}

\* the (difficulty, chunk) pairs
DifficultyChunkPairs == Requested \X (1..Len(in_chunks))

\* the pairs whose iteration has begun
PairsBegun ==
    {p \in DifficultyChunkPairs :
        \/ p[1] < diff_i
        \/ p[1] = diff_i /\ pc = "for_chunk" /\ p[2] <= chunk_i}

\* the callback calls made for n pairs out of total
StepCalls(n, total) == [j \in 1..n |-> <<j, total>>]

\* C29: for a non-empty chunk list and a difficulty asked n > 0 times,
\* questions_per_chunk has one entry per chunk, no entry is negative and the
\* entries sum to n; the callback is called once per (difficulty, chunk)
\* pair, with steps 1, 2, ... and the number of pairs as total, and a last
\* time with (total_steps, total_steps)
C29_Distribution ==
    (op = "generate_quiz" /\ pc \in {"for_difficulty", "for_chunk", "done"}
     /\ in_chunks # <<>>) =>
        /\ pc = "for_chunk" =>
               /\ difficulty_counts[diff_i].count > 0
               /\ Len(questions_per_chunk) = Len(in_chunks)
               /\ \A j \in 1..Len(questions_per_chunk) :
                      questions_per_chunk[j] >= 0
               /\ SumOf(questions_per_chunk) = difficulty_counts[diff_i].count
        /\ current_step = Cardinality(PairsBegun)
        /\ progress_callback =>
               progress =
                   StepCalls(current_step, Cardinality(DifficultyChunkPairs))
                   \o (IF pc = "done"
                       THEN <<<<Cardinality(DifficultyChunkPairs),
                                Cardinality(DifficultyChunkPairs)>>>>
                       ELSE <<>>)
        /\ pc = "done" =>
               /\ outcome = "returned"
               /\ PairsBegun = DifficultyChunkPairs

\* two difficulties over two chunks: four steps and the last call, the
\* three questions of the second difficulty shared 2 and 1
C29_Witness ==
    /\ op = "generate_quiz" /\ pc = "done" /\ progress_callback
    /\ Len(in_chunks) = 2
    /\ Len(progress) = 5
    /\ questions_per_chunk = <<2, 1>>


\* the call and the parsing both went through: a JSON object whose
\* "notions" value, when present, is a list
Succeeded(answer) == answer.kind \in {"absent", "dict"}

\* the well-formed items of an answer, as notions
WellFormed(answer) ==
    LET titled == SelectSeq(answer.items, LAMBDA it : it.kind = "notion")
    IN  [j \in 1..Len(titled) |-> Notion(titled[j].title, <<>>)]

\* the list the latest successful answer among the first k gave
LatestParsed(k) ==
    LET ok == {j \in 1..k : Succeeded(answers[j])}
    IN  IF ok = {} THEN <<>>
        ELSE WellFormed(answers[CHOOSE j \in ok : \A m \in ok : m <= j])

\* C30: detect_notions takes the chunks in order, builds each prompt from
\* the list the latest successful earlier call gave, keeps its list when a
\* call or its parsing fails and goes on, and returns the parsed answer of
\* the last chunk that succeeded (the empty list if there is none)
C30_ErrorRetention ==
    op = "detect_notions" =>
        /\ Len(answers) = chunk_i /\ Len(received) = chunk_i
        /\ chunk_i <= Len(in_chunks)
        /\ \A j \in 1..Len(received) : received[j] = LatestParsed(j - 1)
        /\ notions = LatestParsed(Len(answers))
        /\ pc = "done" =>
               /\ outcome = "returned"
               /\ Len(answers) = Len(in_chunks)
               /\ in_chunks = <<>> => notions = <<>>

\* the first chunk's answer has a malformed item between two notions, the
\* second chunk's call fails: the two notions are returned
C30_Witness ==
    /\ op = "detect_notions" /\ pc = "done" /\ Len(answers) = 2
    /\ Len(answers[1].items) = 3
    /\ Raises(answers[2])
    /\ Len(notions) = 2
    /\ notions[2].title = "B"

====
